---- MODULE Spec2Model ----
(***************************************************************************)
(* velecs-ecs: scene entity store, Transform hierarchy, deferred entity    *)
(* destruction, system scheduler and scene transitions.                    *)
(*                                                                         *)
(* Entity objects are owned by the World and are never freed; an Entity    *)
(* is valid while its handle is alive in the scene's registry.  Transform  *)
(* components hold raw Entity pointers (_parent, _children).               *)
(***************************************************************************)
EXTENDS Integers, Sequences, FiniteSets, TLC

\* ------------------------------------------------------------------ bounds
MaxEntities == 3
NumSystemTypes == 3
NumScenes == 3
MaxArg == 1
MaxComponentEntities == 2
MaxValue == 1
NumTestEntities == 7

\* --------------------------------------------------------------- constants
NULL == 0
Absent == -1

Entities == 1..MaxEntities
EntityOrNull == 0..MaxEntities

VARIABLES
    fault,          \* "none", or why the process stopped
    result,         \* what the last call returned; "none" when it did not return
    outComponent,   \* out-pointer written by the last TryAddComponent: owner or NULL
    numEntities,    \* Entity objects created so far: 1..numEntities
    valid,          \* entities whose handle is alive in the registry
    slot,           \* index part of each entity's handle
    version,        \* version part of each entity's handle
    versions,       \* the registry's table: current version of each index it has issued
    store,          \* store[e][T]: payload of T on e, or Absent
    parent,         \* Transform::_parent
    children,       \* Transform::_children
    isModelDirty,   \* Transform::isModelDirty
    isWorldDirty,   \* Transform::isWorldDirty
    local,          \* Transform::pos, rot and scale, as one numbered value
    cachedModelMat, \* Transform::cachedModelMat
    cachedWorldMat, \* Transform::cachedWorldMat
    systems,        \* Scene::_systems: type -> instance record or NoSystem
    systemsIterator,\* Scene::_systemsIterator
    dispatchLog,    \* System methods called by the last call on the scene's systems, in order
    currentScene,   \* SceneManager::_currentScene
    targetScene,    \* SceneManager::_targetScene
    hasRegistry,    \* Scene::_registry.has_value() per scene
    lastHook,       \* last lifecycle hook each scene received
    hooks,          \* lifecycle hooks called by the last transition, in order
    hookViews,      \* the storage each of those hooks found when it was called
    hierarchy,      \* the Transform hierarchy a Traverse call walks
    iterator,       \* the TraversalIterator of the running range-for, or NoIterator
    yielded,        \* the entities operator* returned to the loop body, in order
    queryCalls      \* the entities the last call gave to a Query callback, in order

registryVars == <<numEntities, valid, slot, version, versions, store>>
transformVars == <<parent, children, isModelDirty, isWorldDirty>>
matrixVars == <<local, cachedModelMat, cachedWorldMat>>
traversalVars == <<hierarchy, iterator, yielded>>
queryVars == <<queryCalls>>
systemVars == <<systems, systemsIterator, dispatchLog>>
managerVars == <<currentScene, targetScene, hasRegistry, lastHook, hooks, hookViews>>
vars == <<fault, result, outComponent, registryVars, transformVars, matrixVars, systemVars,
          managerVars, traversalVars, queryVars>>

\* ------------------------------------------------------------ type sets
\* the component types application code adds and removes
UserComponentTypes == {"ExampleComponent"}

ComponentTypes == {"Name", "Transform"} \cup UserComponentTypes
TagTypes == {"DestroyTag", "ExampleTag"}
Types == ComponentTypes \cup TagTypes

SystemTypes == 1..NumSystemTypes
Scenes == 1..NumScenes
NoSystem == [present |-> FALSE, enabled |-> FALSE]

Bool(b) == IF b THEN "true" ELSE "false"

\* ------------------------------------------------------ sequence helpers
Contains(s, x) == \E i \in 1..Len(s) : s[i] = x

\* std::remove + erase: drops every occurrence of x
RemoveAll(s, x) == SelectSeq(s, LAMBDA y : y # x)

Reverse(s) == [i \in 1..Len(s) |-> s[Len(s) + 1 - i]]

SeqToSet(s) == {s[i] : i \in 1..Len(s)}

\* ------------------------------------------------------------- registry
\* the scene whose registry, entities and systems the model follows
\* ------------------------------------------------------------ matrices
\* A Mat4 is kept as the sequence of the non-identity factors it is the
\* product of; Mat4::IDENTITY is the empty product and operator* appends.
\* The local position, rotation and scale of a transform are numbered as one
\* value, 0 being the default (Vec3::ZERO, Quat::IDENTITY, Vec3::ONE), whose
\* matrix T * R * S is the identity.
IDENTITY == <<>>

\* a Transform constructed anew for each entity of S
DefaultMatrices(S) ==
    /\ local' = [e \in Entities |-> IF e \in S THEN 0 ELSE local[e]]
    /\ cachedModelMat' = [e \in Entities |-> IF e \in S THEN IDENTITY ELSE cachedModelMat[e]]
    /\ cachedWorldMat' = [e \in Entities |-> IF e \in S THEN IDENTITY ELSE cachedWorldMat[e]]

TheScene == CHOOSE s \in Scenes : TRUE

OtherScene == CHOOSE s \in Scenes : s # TheScene

\* an Entity object of OtherScene, alive in the registry of its own scene
ForeignEntity == MaxEntities + 1

\* Entity::GetScene
GetScene(x) == IF x = ForeignEntity THEN OtherScene ELSE TheScene

\* Scene::_registry.has_value() of that scene
HasRegistry == hasRegistry[TheScene]

\* a GetRegistry that hands out an empty registry instead of throwing: the
\* caller sees "nothing there"
ThrowsNoRegistry_Silent ==
    /\ result' = "false"
    /\ UNCHANGED <<fault, outComponent, registryVars, transformVars, matrixVars, systemVars, managerVars, traversalVars>>
    /\ queryCalls' = <<>>

\* Scene::GetRegistry on a scene that holds no registry: std::runtime_error,
\* nothing changed
ThrowsNoRegistry ==
    /\ result' = "throws"
    /\ UNCHANGED <<fault, outComponent, registryVars, transformVars, matrixVars, systemVars, managerVars, traversalVars>>
    /\ queryCalls' = <<>>

\* Scene::IsEntityHandleValid, on which Entity::IsValid rests
IsEntityHandleValid(v, e) == e # NULL /\ e \in v

IsValid(e) == IsEntityHandleValid(valid, e)

\* Entity::IsValid on any Entity object, with v the live handles of TheScene
EntityIsValid(v, x) == IF x = ForeignEntity THEN TRUE ELSE IsEntityHandleValid(v, x)

EmptyStore == [t \in Types |-> Absent]

Has(e, t) == store[e][t] # Absent

\* indices the registry has issued and whose entity has been destroyed
FreeSlots == (1..Len(versions)) \ {slot[e] : e \in valid}

\* entt::registry::create: recycles a released index when there is one
NewSlots ==
    IF FreeSlots # {} THEN FreeSlots
    ELSE {Len(versions) + 1}

\* the version create() gives index s: a recycled index comes back with its
\* version advanced, a new index starts at version 0
NewVersion(s) == IF s <= Len(versions) THEN versions[s] + 1 ELSE 0

\* the Entity objects of the scene that hold the handle (s, v): the keys of
\* Scene::_entities are never erased
HandleHolders(s, v) == {x \in 1..numEntities : slot[x] = s /\ version[x] = v}

\* Scene::TryGetEntity(handle): the Entity whose CreateEntity inserted the
\* handle into _entities (try_emplace keeps the first), nullptr for a handle
\* that is no key of the map
TryGetEntity(s, v) ==
    IF HandleHolders(s, v) = {} THEN NULL
    ELSE CHOOSE x \in HandleHolders(s, v) : \A y \in HandleHolders(s, v) : x <= y

\* Scene::CreateEntity + EntityBuilder: a new Entity object with a Name and a
\* default Transform (no parent, no children, both matrices dirty).  When
\* _entities already holds the new handle, try_emplace inserts nothing: the
\* assert aborts where asserts are compiled in, and otherwise the old Entity
\* objects of that handle are valid again
CreateEntity ==
    /\ fault = "none"
    /\ IF ~HasRegistry
       THEN ThrowsNoRegistry
       ELSE /\ numEntities < MaxEntities
            /\ \E s \in NewSlots, asserts \in BOOLEAN :
                LET e == numEntities + 1
                    v == NewVersion(s)
                    inserted == HandleHolders(s, v) = {}
                IN
                /\ numEntities' = e
                /\ slot' = [slot EXCEPT ![e] = s]
                /\ version' = [version EXCEPT ![e] = v]
                /\ versions' = IF s <= Len(versions) THEN [versions EXCEPT ![s] = v]
                                ELSE Append(versions, v)
                /\ IF ~inserted /\ asserts
                   THEN /\ fault' = "assert"
                        /\ result' = "none"
                        /\ UNCHANGED <<valid, store, transformVars, matrixVars>>
                   ELSE /\ valid' = valid \cup {e} \cup HandleHolders(s, v)
                        /\ store' = [store EXCEPT ![e] =
                                        [EmptyStore EXCEPT !["Name"] = 0, !["Transform"] = 0]]
                        /\ parent' = [parent EXCEPT ![e] = NULL]
                        /\ children' = [children EXCEPT ![e] = <<>>]
                        /\ isModelDirty' = [isModelDirty EXCEPT ![e] = TRUE]
                        /\ isWorldDirty' = [isWorldDirty EXCEPT ![e] = TRUE]
                        /\ DefaultMatrices({e})
                        /\ fault' = "none"
                        /\ result' = "entity"
            /\ UNCHANGED <<outComponent, systemVars, managerVars, traversalVars>>
            /\ queryCalls' = <<>>

\* ------------------------------------------------------------ hierarchy
\* entities reachable from e through one or more _children steps, following
\* only the children SetWorldDirty follows (the valid ones)
RECURSIVE ReachDown(_, _, _, _)
ReachDown(ch, v, frontier, seen) ==
    LET next == UNION {{c \in SeqToSet(ch[x]) : IsEntityHandleValid(v, c)} : x \in frontier}
        new == next \ seen
    IN IF new = {} THEN seen ELSE ReachDown(ch, v, new, seen \cup new)

StrictDescendants(ch, v, e) == ReachDown(ch, v, {e}, {})

\* SetWorldDirty that marks the transform alone
WorldDirtySet_OnlySelf(ch, v, e) == {e}

\* SetWorldDirty that marks the parent's transform as well
WorldDirtySet_AndParent(ch, v, e) ==
    {e} \cup StrictDescendants(ch, v, e) \cup {x \in v : Contains(ch[x], e)}

\* Transform::SetWorldDirty recursion: the transforms it marks, and whether
\* the recursion ever ends (it does not when a children cycle is reachable)
WorldDirtySet(ch, v, e) == {e} \cup StrictDescendants(ch, v, e)

SetWorldDirtyDiverges(ch, v, e) ==
    \E x \in WorldDirtySet(ch, v, e) : x \in StrictDescendants(ch, v, x)

\* the entities met by walking _parent upwards from current
RECURSIVE AncestorsFrom(_, _, _)
AncestorsFrom(par, current, seen) ==
    IF current = NULL \/ current \in seen THEN seen
    ELSE AncestorsFrom(par, par[current], seen \cup {current})

Ancestors(par, e) == AncestorsFrom(par, par[e], {})

\* Transform::IsDescendantOf on the transform of e
IsDescendantOf(par, e, ancestor) == ancestor # NULL /\ ancestor \in Ancestors(par, e)

\* the part of the state the Transform operations read and write
Graph == [valid |-> valid, parent |-> parent, children |-> children,
          isWorldDirty |-> isWorldDirty]

Outcome(r, g, f) == [ret |-> r, g |-> g, fault |-> f]

\* TrySetParent without the removal from the old parent's children
TrySetParentCall_KeepsOldLink(g, e, newParent) ==
    IF newParent = NULL \/ ~IsEntityHandleValid(g.valid, newParent)
    THEN Outcome("false", g, "none")
    ELSE IF g.parent[e] = newParent
    THEN Outcome("true", g, "none")
    ELSE
        LET par1 == [g.parent EXCEPT ![e] = newParent]
            ch2 == IF ~Contains(g.children[newParent], e)
                   THEN [g.children EXCEPT ![newParent] = Append(@, e)]
                   ELSE g.children
            dirty == WorldDirtySet(ch2, g.valid, e)
            diverges == SetWorldDirtyDiverges(ch2, g.valid, e)
            g2 == [g EXCEPT !.parent = par1, !.children = ch2,
                            !.isWorldDirty = [x \in Entities |-> @[x] \/ x \in dirty]]
        IN IF diverges THEN Outcome("none", g2, "stack overflow")
           ELSE Outcome("true", g2, "none")

\* TrySetParent without the validity test of newParent
TrySetParentCall_AcceptsInvalid(g, e, newParent) ==
    IF newParent = NULL THEN Outcome("false", g, "none")
    ELSE IF g.parent[e] = newParent THEN Outcome("true", g, "none")
    ELSE LET old == g.parent[e]
             ch1 == IF old # NULL /\ IsEntityHandleValid(g.valid, old)
                    THEN [g.children EXCEPT ![old] = RemoveAll(@, e)]
                    ELSE g.children
             ch2 == IF IsEntityHandleValid(g.valid, newParent) /\ ~Contains(ch1[newParent], e)
                    THEN [ch1 EXCEPT ![newParent] = Append(@, e)]
                    ELSE ch1
             dirty == WorldDirtySet(ch2, g.valid, e)
         IN Outcome(IF SetWorldDirtyDiverges(ch2, g.valid, e) THEN "none" ELSE "true",
                    [g EXCEPT !.parent[e] = newParent, !.children = ch2,
                              !.isWorldDirty = [x \in Entities |-> @[x] \/ x \in dirty]],
                    IF SetWorldDirtyDiverges(ch2, g.valid, e) THEN "stack overflow" ELSE "none")

\* TrySetParent that puts the entity in front of newParent's children
TrySetParentCall_Prepends(g, e, newParent) ==
    IF newParent = NULL \/ ~EntityIsValid(g.valid, newParent)
    THEN Outcome("false", g, "none")
    ELSE IF GetScene(e) # GetScene(newParent)
    THEN Outcome("false", g, "none")
    ELSE IF g.parent[e] = newParent
    THEN Outcome("true", g, "none")
    ELSE
        LET old == g.parent[e]
            ch1 == IF old # NULL /\ IsEntityHandleValid(g.valid, old)
                   THEN [g.children EXCEPT ![old] = RemoveAll(@, e)]
                   ELSE g.children
            ch2 == IF ~Contains(ch1[newParent], e)
                   THEN [ch1 EXCEPT ![newParent] = <<e>> \o @]
                   ELSE ch1
            dirty == WorldDirtySet(ch2, g.valid, e)
            g2 == [g EXCEPT !.parent[e] = newParent, !.children = ch2,
                            !.isWorldDirty = [x \in Entities |-> @[x] \/ x \in dirty]]
        IN IF SetWorldDirtyDiverges(ch2, g.valid, e) THEN Outcome("none", g2, "stack overflow")
           ELSE Outcome("true", g2, "none")

\* Transform::TrySetParent on the transform of valid entity e
TrySetParentCall(g, e, newParent) ==
    IF newParent = NULL \/ ~EntityIsValid(g.valid, newParent)
    THEN Outcome("false", g, "none")
    ELSE IF GetScene(e) # GetScene(newParent)
    THEN Outcome("false", g, "none")
    ELSE IF g.parent[e] = newParent
    THEN Outcome("true", g, "none")
    ELSE
        LET old == g.parent[e]
            ch1 == IF old # NULL /\ IsEntityHandleValid(g.valid, old)
                   THEN [g.children EXCEPT ![old] = RemoveAll(@, e)]
                   ELSE g.children
            par1 == [g.parent EXCEPT ![e] = newParent]
            ch2 == IF ~Contains(ch1[newParent], e)
                   THEN [ch1 EXCEPT ![newParent] = Append(@, e)]
                   ELSE ch1
            dirty == WorldDirtySet(ch2, g.valid, e)
            diverges == SetWorldDirtyDiverges(ch2, g.valid, e)
            g2 == [g EXCEPT !.parent = par1, !.children = ch2,
                            !.isWorldDirty = [x \in Entities |-> @[x] \/ x \in dirty]]
        IN IF diverges THEN Outcome("none", g2, "stack overflow")
           ELSE Outcome("true", g2, "none")

\* Transform::TryAddChild on the transform of valid entity e
TryAddChildCall(g, e, child) ==
    IF ~IsEntityHandleValid(g.valid, child) \/ child = e
    THEN Outcome("false", g, "none")
    ELSE LET r == TrySetParentCall(g, child, e) IN
         Outcome(IF r.fault = "none" THEN "true" ELSE "none", r.g, r.fault)

\* the tail shared by both TryRemoveChild overloads
RemoveChildTail(g, child) ==
    IF IsEntityHandleValid(g.valid, child)
    THEN LET r == TrySetParentCall(g, child, NULL) IN
         Outcome(IF r.fault = "none" THEN "true" ELSE "none", r.g, r.fault)
    ELSE Outcome("true", g, "none")

\* Transform::TryRemoveChild(Entity*)
TryRemoveChildCall(g, e, child) ==
    IF ~Contains(g.children[e], child)
    THEN Outcome("false", g, "none")
    ELSE RemoveChildTail(g, child)

\* Transform::TryRemoveChild(size_t)
TryRemoveChildAtCall(g, e, index) ==
    IF index >= Len(g.children[e])
    THEN Outcome("false", g, "none")
    ELSE RemoveChildTail(g, g.children[e][index + 1])

IndexOf(s, x) == CHOOSE i \in 1..Len(s) : s[i] = x /\ \A j \in 1..(i - 1) : s[j] # x

EraseAt(s, i) == [j \in 1..(Len(s) - 1) |-> IF j < i THEN s[j] ELSE s[j + 1]]

\* std::vector::insert before 0-based position at
InsertAt(s, at, x) ==
    [j \in 1..(Len(s) + 1) |-> IF j <= at THEN s[j] ELSE IF j = at + 1 THEN x ELSE s[j - 1]]

Min(a, b) == IF a < b THEN a ELSE b

\* TrySetSiblingIndex that moves the entity to the front whatever the index
TrySetSiblingIndexCall_AlwaysFirst(g, e, index) ==
    LET p == g.parent[e] IN
    IF ~IsEntityHandleValid(g.valid, p) THEN Outcome("false", g, "none")
    ELSE IF ~Contains(g.children[p], e) THEN Outcome("throws", g, "none")
    ELSE Outcome("true",
                 [g EXCEPT !.children[p] = <<e>> \o EraseAt(@, IndexOf(@, e))],
                 "none")

\* TrySetSiblingIndex that reports an entity missing from its parent's children
\* as an ordinary failure
TrySetSiblingIndexCall_ReturnsFalse(g, e, index) ==
    LET p == g.parent[e] IN
    IF ~IsEntityHandleValid(g.valid, p) THEN Outcome("false", g, "none")
    ELSE IF ~Contains(g.children[p], e) THEN Outcome("false", g, "none")
    ELSE LET erased == EraseAt(g.children[p], IndexOf(g.children[p], e))
             clampedIndex == Min(index, Len(erased))
         IN Outcome("true",
                    [g EXCEPT !.children[p] = InsertAt(erased, clampedIndex, e)],
                    "none")

\* Transform::TrySetSiblingIndex on an entity whose _parent is not null
TrySetSiblingIndexCall(g, e, index) ==
    LET p == g.parent[e] IN
    IF ~IsEntityHandleValid(g.valid, p) THEN Outcome("false", g, "none")
    ELSE IF ~Contains(g.children[p], e) THEN Outcome("throws", g, "none")
    ELSE LET erased == EraseAt(g.children[p], IndexOf(g.children[p], e))
             clampedIndex == Min(index, Len(erased))
         IN Outcome("true",
                    [g EXCEPT !.children[p] = InsertAt(erased, clampedIndex, e)],
                    "none")

ApplyGraph(g) ==
    /\ valid' = g.valid
    /\ parent' = g.parent
    /\ children' = g.children
    /\ isWorldDirty' = g.isWorldDirty

ApplyTransformCall(r) ==
    /\ ApplyGraph(r.g)
    /\ fault' = r.fault
    /\ result' = r.ret
    /\ UNCHANGED <<outComponent, numEntities, slot, version, versions, store, isModelDirty, matrixVars, systemVars,
                   managerVars, traversalVars>>
    /\ queryCalls' = <<>>

TrySetParent(e, newParent) ==
    /\ fault = "none"
    /\ IsValid(e)
    /\ newParent \in 0..numEntities \cup {ForeignEntity}
    /\ ApplyTransformCall(TrySetParentCall(Graph, e, newParent))

TryAddChild(e, child) ==
    /\ fault = "none"
    /\ IsValid(e)
    /\ child \in 1..numEntities
    /\ ApplyTransformCall(TryAddChildCall(Graph, e, child))

TryRemoveChild(e, child) ==
    /\ fault = "none"
    /\ IsValid(e)
    /\ child \in 1..numEntities
    /\ ApplyTransformCall(TryRemoveChildCall(Graph, e, child))

TryRemoveChildAt(e, index) ==
    /\ fault = "none"
    /\ IsValid(e)
    /\ ApplyTransformCall(TryRemoveChildAtCall(Graph, e, index))

\* Transform::TrySetSiblingIndex; on a root, _parent->IsValid() is a member
\* call through a null pointer: it may fault or behave as "not valid"
TrySetSiblingIndex(e, index) ==
    /\ fault = "none"
    /\ IsValid(e)
    /\ \/ /\ parent[e] # NULL
          /\ ApplyTransformCall(TrySetSiblingIndexCall(Graph, e, index))
       \/ /\ parent[e] = NULL
          /\ \E f \in {"none", "null dereference"} :
               ApplyTransformCall(Outcome(IF f = "none" THEN "false" ELSE "none", Graph, f))

\* Transform::TrySetAsFirstSibling: TrySetSiblingIndex(0)
TrySetAsFirstSibling(e) == TrySetSiblingIndex(e, 0)

\* Transform::TrySetAsLastSibling: TrySetSiblingIndex(child count of the
\* parent); on a root, _parent->IsValid() is a member call through a null
\* pointer, as in TrySetSiblingIndex
TrySetAsLastSibling(e) ==
    /\ fault = "none"
    /\ IsValid(e)
    /\ \/ /\ parent[e] # NULL
          /\ ApplyTransformCall(
                IF ~IsEntityHandleValid(valid, parent[e]) THEN Outcome("false", Graph, "none")
                ELSE TrySetSiblingIndexCall(Graph, e, Len(children[parent[e]])))
       \/ /\ parent[e] = NULL
          /\ \E f \in {"none", "null dereference"} :
               ApplyTransformCall(Outcome(IF f = "none" THEN "false" ELSE "none", Graph, f))

\* the value Transform::GetSiblingIndex computes on an entity whose _parent is
\* not null
GetSiblingIndexCall(v, par, ch, e) ==
    LET p == par[e] IN
    IF ~IsEntityHandleValid(v, p) THEN 0
    ELSE IF Contains(ch[p], e) THEN IndexOf(ch[p], e) - 1
    ELSE 0

\* Transform::GetSiblingIndex; on a root, _parent->IsValid() is a member call
\* through a null pointer: it may fault or behave as "not valid"
GetSiblingIndex(e) ==
    /\ fault = "none"
    /\ IsValid(e)
    /\ \/ /\ parent[e] # NULL
          /\ ApplyTransformCall(
                Outcome(ToString(GetSiblingIndexCall(valid, parent, children, e)), Graph, "none"))
       \/ /\ parent[e] = NULL
          /\ \E f \in {"none", "null dereference"} :
               ApplyTransformCall(Outcome(IF f = "none" THEN "0" ELSE "none", Graph, f))

\* the loop of Transform::GetRoot from current: it goes on while
\* _parent->IsValid(), and stops on an erased parent; on a null _parent the
\* test is a member call through a null pointer, NULL standing for it here
RECURSIVE GetRootFrom(_, _, _, _)
GetRootFrom(v, par, current, seen) ==
    IF par[current] = NULL THEN [root |-> current, end |-> "null"]
    ELSE IF ~IsEntityHandleValid(v, par[current]) THEN [root |-> current, end |-> "invalid"]
    ELSE IF par[current] \in seen THEN [root |-> current, end |-> "cycle"]
    ELSE GetRootFrom(v, par, par[current], seen \cup {current})

\* Transform::GetRoot: the entity returned, as its number
GetRoot(e) ==
    /\ fault = "none"
    /\ IsValid(e)
    /\ LET r == GetRootFrom(valid, parent, e, {}) IN
       IF r.end = "invalid" THEN ApplyTransformCall(Outcome(ToString(r.root), Graph, "none"))
       ELSE IF r.end = "cycle" THEN ApplyTransformCall(Outcome("none", Graph, "endless loop"))
       ELSE \E f \in {"none", "null dereference"} :
               ApplyTransformCall(Outcome(IF f = "none" THEN ToString(r.root) ELSE "none",
                                          Graph, f))

\* ------------------------------------------------- transform matrices
\* the part of the state the matrix getters read and write
Caches == [isModelDirty |-> isModelDirty, isWorldDirty |-> isWorldDirty,
           cachedModelMat |-> cachedModelMat, cachedWorldMat |-> cachedWorldMat,
           fault |-> "none"]

\* Transform::CalculateModel: T * R * S
CalculateModel(e) == IF local[e] = 0 THEN IDENTITY ELSE <<local[e]>>

\* Transform::GetModelMatrix on the transform of e, from caches c
GetModelMatrixCall(c, e) ==
    IF c.isModelDirty[e]
    THEN [c EXCEPT !.cachedModelMat[e] = CalculateModel(e), !.isModelDirty[e] = FALSE]
    ELSE c

\* Transform::GetWorldMatrix with Transform::CalculateWorld on the transform of
\* e; calling holds the entities whose GetWorldMatrix is on the call stack
RECURSIVE GetWorldMatrixCall(_, _, _)
GetWorldMatrixCall(c, e, calling) ==
    IF ~c.isWorldDirty[e] THEN c
    ELSE IF parent[e] = NULL
    THEN LET m == GetModelMatrixCall(c, e) IN
         [m EXCEPT !.cachedWorldMat[e] = m.cachedModelMat[e], !.isWorldDirty[e] = FALSE]
    ELSE IF ~IsValid(parent[e]) THEN [c EXCEPT !.fault = "invalid read"]
    ELSE IF parent[e] \in calling \cup {e} THEN [c EXCEPT !.fault = "stack overflow"]
    ELSE LET up == GetWorldMatrixCall(c, parent[e], calling \cup {e}) IN
         IF up.fault # "none" THEN up
         ELSE LET m == GetModelMatrixCall(up, e) IN
              [m EXCEPT !.cachedWorldMat[e] = m.cachedWorldMat[parent[e]] \o m.cachedModelMat[e],
                        !.isWorldDirty[e] = FALSE]

ApplyCaches(c) ==
    /\ isModelDirty' = c.isModelDirty
    /\ isWorldDirty' = c.isWorldDirty
    /\ cachedModelMat' = c.cachedModelMat
    /\ cachedWorldMat' = c.cachedWorldMat
    /\ fault' = c.fault
    /\ result' = IF c.fault = "none" THEN "matrix" ELSE "none"
    /\ UNCHANGED <<outComponent, registryVars, parent, children, local, systemVars,
                   managerVars, traversalVars>>
    /\ queryCalls' = <<>>

\* Transform::GetModelMatrix
GetModelMatrix(e) ==
    /\ fault = "none"
    /\ IsValid(e)
    /\ ApplyCaches(GetModelMatrixCall(Caches, e))

\* Transform::GetWorldMatrix
GetWorldMatrix(e) ==
    /\ fault = "none"
    /\ IsValid(e)
    /\ ApplyCaches(GetWorldMatrixCall(Caches, e, {}))

\* Transform::SetDirty: SetWorldDirty reaches the valid children, recursively
SetDirty(e) ==
    /\ isModelDirty' = [isModelDirty EXCEPT ![e] = TRUE]
    /\ LET dirty == WorldDirtySet(children, valid, e) IN
       /\ isWorldDirty' = [x \in Entities |-> isWorldDirty[x] \/ x \in dirty]
       /\ fault' = IF SetWorldDirtyDiverges(children, valid, e) THEN "stack overflow" ELSE "none"
       /\ result' = IF SetWorldDirtyDiverges(children, valid, e) THEN "none" ELSE "void"
    /\ UNCHANGED <<outComponent, registryVars, parent, children, cachedModelMat, cachedWorldMat,
                   systemVars, managerVars, traversalVars>>
    /\ queryCalls' = <<>>

\* Transform::SetPos, SetScale, SetRot, SetEulerAnglesRad, SetEulerAnglesDeg:
\* the field is assigned, then SetDirty
SetLocal(e, newLocal) ==
    /\ fault = "none"
    /\ IsValid(e)
    /\ local' = [local EXCEPT ![e] = newLocal]
    /\ SetDirty(e)

\* ---------------------------------------------------------- destruction
\* Entity::GetTransform on x: the entity whose Transform is read.  On an
\* erased handle the registry lookup is undefined: with asserts compiled in
\* it aborts; without them it indexes by the handle's slot and lands on the
\* Transform of the entity that now occupies that slot, if there is one.
\* NULL stands for the faulting read.
GetTransformTarget(asserts, v, x) ==
    IF x \in v THEN x
    ELSE IF ~asserts /\ \E n \in v : slot[n] = slot[x]
         THEN CHOOSE n \in v : slot[n] = slot[x]
         ELSE NULL

\* Scene::DestroyEntity: erases the handle and with it every component
DestroyEntity(g, e) ==
    IF ~IsEntityHandleValid(g.valid, e) THEN g
    ELSE [g EXCEPT !.valid = @ \ {e},
                   !.parent[e] = NULL,
                   !.children[e] = <<>>,
                   !.isWorldDirty[e] = TRUE]

Iter(stack, visited, current, isEnd, f) ==
    [stack |-> stack, visitedParents |-> visited, current |-> current,
     isEnd |-> isEnd, fault |-> f]

\* AdvanceToNextPostOrderNode that pushes the children first to last
RECURSIVE AdvanceToNextPostOrderNode_PushesForward(_, _, _, _)
AdvanceToNextPostOrderNode_PushesForward(asserts, g, stack, visited) ==
    IF stack = <<>> THEN Iter(stack, visited, NULL, TRUE, "none")
    ELSE LET top == stack[Len(stack)] IN
         IF top \in visited THEN Iter(stack, visited, top, FALSE, "none")
         ELSE LET t == GetTransformTarget(asserts, g.valid, top)
                  seen == visited \cup {top}
              IN IF t = NULL THEN Iter(stack, seen, top, TRUE, "invalid read")
                 ELSE IF g.children[t] = <<>>
                 THEN Iter(stack, seen, top, FALSE, "none")
                 ELSE AdvanceToNextPostOrderNode_PushesForward(asserts, g,
                                                               stack \o g.children[t], seen)

\* TraversalIterator<PostOrder>::AdvanceToNextPostOrderNode; the stack top
\* is the last element
RECURSIVE AdvanceToNextPostOrderNode(_, _, _, _)
AdvanceToNextPostOrderNode(asserts, g, stack, visited) ==
    IF stack = <<>> THEN Iter(stack, visited, NULL, TRUE, "none")
    ELSE LET top == stack[Len(stack)] IN
         IF top \in visited THEN Iter(stack, visited, top, FALSE, "none")
         ELSE LET t == GetTransformTarget(asserts, g.valid, top)
                  seen == visited \cup {top}
              IN IF t = NULL THEN Iter(stack, seen, top, TRUE, "invalid read")
                 ELSE IF g.children[t] = <<>>
                 THEN Iter(stack, seen, top, FALSE, "none")
                 ELSE AdvanceToNextPostOrderNode(asserts, g, stack \o Reverse(g.children[t]), seen)

\* TraversalIterator<PostOrder>::Initialize
PostOrderBegin(asserts, g, root) == AdvanceToNextPostOrderNode(asserts, g, <<root>>, {})

\* TraversalIterator<PostOrder>::Advance
PostOrderAdvance(asserts, g, it) ==
    IF it.stack = <<>> THEN Iter(it.stack, it.visitedParents, it.current, TRUE, "none")
    ELSE AdvanceToNextPostOrderNode(asserts, g, SubSeq(it.stack, 1, Len(it.stack) - 1),
                                    it.visitedParents)

\* TraversalIterator<PreOrder>::Advance that pushes the children first to last
PreOrderAdvance_PushesForward(asserts, g, it) ==
    IF it.stack = <<>> THEN Iter(it.stack, it.visitedParents, it.current, TRUE, "none")
    ELSE LET current == it.stack[Len(it.stack)]
             popped == SubSeq(it.stack, 1, Len(it.stack) - 1)
             t == GetTransformTarget(asserts, g.valid, current)
         IN IF t = NULL THEN Iter(popped, it.visitedParents, current, TRUE, "invalid read")
            ELSE Iter(popped \o g.children[t], it.visitedParents, current, FALSE, "none")

\* TraversalIterator<PreOrder>::Advance; the stack top is the last element
PreOrderAdvance(asserts, g, it) ==
    IF it.stack = <<>> THEN Iter(it.stack, it.visitedParents, it.current, TRUE, "none")
    ELSE LET current == it.stack[Len(it.stack)]
             popped == SubSeq(it.stack, 1, Len(it.stack) - 1)
             t == GetTransformTarget(asserts, g.valid, current)
         IN IF t = NULL THEN Iter(popped, it.visitedParents, current, TRUE, "invalid read")
            ELSE Iter(popped \o Reverse(g.children[t]), it.visitedParents, current, FALSE, "none")

\* TraversalIterator<PreOrder>::Initialize
PreOrderBegin(asserts, g, root) ==
    PreOrderAdvance(asserts, g, Iter(<<root>>, {}, NULL, FALSE, "none"))

Pass(g, f, erased) == [g |-> g, fault |-> f, erased |-> erased]

\* the range-for of Scene::ProcessEntityCleanup over one queue entry
RECURSIVE DestroySubtree(_, _, _, _, _)
DestroySubtree(asserts, g, it, entityToDelete, erased) ==
    IF it.fault # "none" THEN Pass(g, it.fault, erased)
    ELSE IF it.isEnd THEN Pass(g, "none", erased)
    ELSE LET entity == it.current
             t == GetTransformTarget(asserts, g.valid, entity)
         IN IF t = NULL THEN Pass(g, "invalid read", erased)
            ELSE LET r == IF entity = entityToDelete
                          THEN TrySetParentCall(g, t, NULL)
                          ELSE Outcome("none", g, "none")
                 IN IF r.fault # "none" THEN Pass(r.g, r.fault, erased)
                    ELSE LET g2 == DestroyEntity(r.g, entity)
                             erased2 == IF entity \in r.g.valid
                                        THEN Append(erased, entity) ELSE erased
                         IN DestroySubtree(asserts, g2, PostOrderAdvance(asserts, g2, it),
                                           entityToDelete, erased2)

\* the outer loop of Scene::ProcessEntityCleanup over the snapshot
RECURSIVE DestroyQueue(_, _, _, _)
DestroyQueue(asserts, g, queue, erased) ==
    IF queue = <<>> THEN Pass(g, "none", erased)
    ELSE LET entityToDelete == Head(queue) IN
         IF ~IsEntityHandleValid(g.valid, entityToDelete)
         THEN DestroyQueue(asserts, g, Tail(queue), erased)
         ELSE LET r == DestroySubtree(asserts, g, PostOrderBegin(asserts, g, entityToDelete),
                                      entityToDelete, erased)
              IN IF r.fault # "none" THEN r
                 ELSE DestroyQueue(asserts, r.g, Tail(queue), r.erased)

Marked == {e \in valid : Has(e, "DestroyTag")}

\* the orders in which view<DestroyTag> may list the marked entities
RECURSIVE Snapshots(_)
Snapshots(S) ==
    IF S = {} THEN {<<>>}
    ELSE UNION {{<<x>> \o q : q \in Snapshots(S \ {x})} : x \in S}

\* a pass that also queues an entity that carries no DestroyTag
ProcessEntityCleanupCall_QueuesUnmarked(asserts, g, queue) ==
    DestroyQueue(asserts, g,
                 IF g.valid = {} THEN queue ELSE Append(queue, CHOOSE e \in g.valid : TRUE),
                 <<>>)

\* Scene::ProcessEntityCleanup on the snapshot queue of the marked entities
ProcessEntityCleanupCall(asserts, g, queue) == DestroyQueue(asserts, g, queue, <<>>)

\* Scene::ProcessEntityCleanup
ProcessEntityCleanup ==
    /\ fault = "none"
    /\ IF ~HasRegistry
       THEN ThrowsNoRegistry
       ELSE /\ \E queue \in Snapshots(Marked), asserts \in BOOLEAN :
                LET r == ProcessEntityCleanupCall(asserts, Graph, queue) IN
                /\ ApplyGraph(r.g)
                /\ store' = [e \in Entities |-> IF e \in r.g.valid THEN store[e] ELSE EmptyStore]
                /\ isModelDirty' = [e \in Entities |-> IF e \in valid \ r.g.valid THEN TRUE
                                                       ELSE isModelDirty[e]]
                /\ DefaultMatrices(valid \ r.g.valid)
                /\ fault' = r.fault
                /\ result' = IF r.fault = "none" THEN "void" ELSE "none"
            /\ UNCHANGED <<outComponent, numEntities, slot, version, versions, systemVars, managerVars, traversalVars>>
            /\ queryCalls' = <<>>

\* ------------------------------------------------- tags and components
ResetTransform(e) ==
    /\ parent' = [parent EXCEPT ![e] = NULL]
    /\ children' = [children EXCEPT ![e] = <<>>]
    /\ isModelDirty' = [isModelDirty EXCEPT ![e] = TRUE]
    /\ isWorldDirty' = [isWorldDirty EXCEPT ![e] = TRUE]
    /\ DefaultMatrices({e})

\* Scene::HasTag / Scene::HasComponent: registry.all_of<T>(handle)
HasTag(e, t) == store[e][t] # Absent

HasComponent(e, t) == store[e][t] # Absent

\* Scene::TryAddTag
TryAddTag(e, t) ==
    /\ fault = "none"
    /\ IF ~HasRegistry
       THEN e \in 1..numEntities /\ ThrowsNoRegistry
       ELSE /\ IsValid(e)
            /\ IF HasTag(e, t)
               THEN /\ result' = "false"
                    /\ UNCHANGED store
               ELSE /\ store' = [store EXCEPT ![e][t] = 0]
                    /\ result' = "true"
            /\ UNCHANGED <<fault, outComponent, numEntities, valid, slot, version, versions, transformVars, matrixVars,
                           systemVars, managerVars, traversalVars>>
            /\ queryCalls' = <<>>

\* MarkForDestruction that erases the entity at once
MarkForDestruction_Immediate(e) ==
    /\ fault = "none"
    /\ HasRegistry
    /\ e \in 1..numEntities
    /\ valid' = valid \ {e}
    /\ store' = [store EXCEPT ![e] = EmptyStore]
    /\ result' = "void"
    /\ UNCHANGED <<fault, outComponent, numEntities, slot, version, versions, transformVars,
                   matrixVars, systemVars, managerVars, traversalVars>>
    /\ queryCalls' = <<>>

\* Entity::MarkForDestruction: adds the DestroyTag to a valid entity and does
\* nothing on an invalid one; the validity test reads the scene's registry
MarkForDestruction(e) ==
    /\ fault = "none"
    /\ e \in 1..numEntities
    /\ IF ~HasRegistry
       THEN ThrowsNoRegistry
       ELSE /\ store' = IF IsValid(e) /\ ~HasTag(e, "DestroyTag")
                        THEN [store EXCEPT ![e]["DestroyTag"] = 0]
                        ELSE store
            /\ result' = "void"
            /\ UNCHANGED <<fault, outComponent, numEntities, valid, slot, version, versions,
                           transformVars, matrixVars, systemVars, managerVars, traversalVars>>
            /\ queryCalls' = <<>>

\* Scene::TryRemoveTag: registry.remove<T>(handle) > 0
TryRemoveTag(e, t) ==
    /\ fault = "none"
    /\ IF ~HasRegistry
       THEN e \in 1..numEntities /\ ThrowsNoRegistry
       ELSE /\ IsValid(e)
            /\ LET removed == IF store[e][t] # Absent THEN 1 ELSE 0 IN
               /\ store' = [store EXCEPT ![e][t] = Absent]
               /\ result' = Bool(removed > 0)
            /\ UNCHANGED <<fault, outComponent, numEntities, valid, slot, version, versions, transformVars, matrixVars,
                           systemVars, managerVars, traversalVars>>
            /\ queryCalls' = <<>>

\* Scene::IsEntityHandleValid called by application code on an Entity object
\* of the scene, or on nullptr (answered without touching the registry)
IsEntityHandleValidCall(e) ==
    /\ fault = "none"
    /\ e \in 0..numEntities
    /\ IF e = NULL
       THEN /\ result' = "false"
            /\ UNCHANGED <<fault, outComponent, registryVars, transformVars, matrixVars, systemVars,
                           managerVars, traversalVars>>
            /\ queryCalls' = <<>>
       ELSE IF ~HasRegistry
       THEN ThrowsNoRegistry
       ELSE /\ result' = Bool(IsValid(e))
            /\ UNCHANGED <<fault, outComponent, registryVars, transformVars, matrixVars, systemVars,
                           managerVars, traversalVars>>
            /\ queryCalls' = <<>>

\* Scene::HasTag / Scene::HasComponent called by application code
HasTagOrComponent(e, t) ==
    /\ fault = "none"
    /\ IF ~HasRegistry
       THEN e \in 1..numEntities /\ ThrowsNoRegistry
       ELSE /\ IsValid(e)
            /\ result' = Bool(Has(e, t))
            /\ UNCHANGED <<fault, outComponent, registryVars, transformVars, matrixVars, systemVars,
                           managerVars, traversalVars>>
            /\ queryCalls' = <<>>

\* Scene::TryGetComponent: registry.try_get
TryGetComponent(e, t) ==
    /\ fault = "none"
    /\ IF ~HasRegistry
       THEN e \in 1..numEntities /\ ThrowsNoRegistry
       ELSE /\ IsValid(e)
            /\ outComponent' = IF HasComponent(e, t) THEN e ELSE NULL
            /\ result' = Bool(HasComponent(e, t))
            /\ UNCHANGED <<fault, registryVars, transformVars, matrixVars, systemVars, managerVars, traversalVars>>
            /\ queryCalls' = <<>>

\* a view that lists the entities holding any of the types
View_AnyOf(ts) == {e \in valid : \E t \in ts : Has(e, t)}

\* entt::registry::view<T1..Tn>: the entities of the registry that hold every
\* listed type
View(ts) == {e \in valid : \A t \in ts : Has(e, t)}

\* Scene::Query<T1..Tn>(callback): the callback is called with the Entity
\* object of each entity of the view, in the order the view lists them
Query(ts) ==
    /\ fault = "none"
    /\ ts # {}
    /\ IF ~HasRegistry
       THEN ThrowsNoRegistry
       ELSE /\ \E listed \in Snapshots(View(ts)) : queryCalls' = listed
            /\ result' = "void"
            /\ UNCHANGED <<fault, outComponent, registryVars, transformVars, matrixVars, systemVars,
                           managerVars, traversalVars>>

\* TryAddComponent that replaces a component already held
TryAddComponent_Replace(e, t, arg) ==
    /\ fault = "none"
    /\ IsValid(e)
    /\ store' = [store EXCEPT ![e][t] = arg]
    /\ outComponent' = e
    /\ result' = "true"
    /\ IF t = "Transform" THEN ResetTransform(e) ELSE UNCHANGED <<transformVars, matrixVars>>
    /\ UNCHANGED <<fault, numEntities, valid, slot, version, versions, systemVars, managerVars, traversalVars>>
    /\ queryCalls' = <<>>

\* Scene::TryAddComponent(entity, outComponent, args...): the component is
\* constructed from the argument and its owner set to the entity
TryAddComponent(e, t, arg) ==
    /\ fault = "none"
    /\ IF ~HasRegistry
       THEN e \in 1..numEntities /\ ThrowsNoRegistry
       ELSE /\ IsValid(e)
            /\ IF HasComponent(e, t)
               THEN /\ outComponent' = NULL
                    /\ result' = "false"
                    /\ UNCHANGED <<store, transformVars, matrixVars>>
               ELSE /\ store' = [store EXCEPT ![e][t] = arg]
                    /\ outComponent' = e
                    /\ result' = "true"
                    /\ IF t = "Transform" THEN ResetTransform(e) ELSE UNCHANGED <<transformVars, matrixVars>>
            /\ UNCHANGED <<fault, numEntities, valid, slot, version, versions, systemVars, managerVars, traversalVars>>
            /\ queryCalls' = <<>>

\* Scene::TryRemoveComponent
TryRemoveComponent(e, t) ==
    /\ fault = "none"
    /\ IF ~HasRegistry
       THEN e \in 1..numEntities /\ ThrowsNoRegistry
       ELSE /\ IsValid(e)
            /\ IF ~HasComponent(e, t)
               THEN /\ result' = "false"
                    /\ UNCHANGED <<store, transformVars, matrixVars>>
               ELSE /\ store' = [store EXCEPT ![e][t] = Absent]
                    /\ result' = "true"
                    /\ IF t = "Transform" THEN ResetTransform(e) ELSE UNCHANGED <<transformVars, matrixVars>>
            /\ UNCHANGED <<fault, outComponent, numEntities, valid, slot, version, versions, systemVars, managerVars, traversalVars>>
            /\ queryCalls' = <<>>

\* -------------------------------------------------------------- systems
\* System::GetExecutionOrder of the system types used: 0, -1, 0, -1, ...
GetExecutionOrder(s) == (s % 2) - 1

\* the comparator with its operands' orders compared the wrong way round
OrderLess_Reversed(a, b) == GetExecutionOrder(a) > GetExecutionOrder(b)

\* the comparator TryAddSystem hands to std::lower_bound
OrderLess(a, b) == GetExecutionOrder(a) < GetExecutionOrder(b)

\* std::lower_bound over the 0-based range [first, first + count)
RECURSIVE LowerBoundFrom(_, _, _, _)
LowerBoundFrom(v, id, first, count) ==
    IF count <= 0 THEN first
    ELSE LET step == count \div 2
             it == first + step
         IN IF OrderLess(v[it + 1], id)
            THEN LowerBoundFrom(v, id, it + 1, count - (step + 1))
            ELSE LowerBoundFrom(v, id, first, step)

LowerBound(v, id) == LowerBoundFrom(v, id, 0, Len(v))

\* TryAddSystem without the lookup that rejects a registered type
TryAddSystem_NoLookup(s) ==
    /\ fault = "none"
    /\ systems' = [systems EXCEPT ![s] = [present |-> TRUE, enabled |-> TRUE]]
    /\ systemsIterator' = InsertAt(systemsIterator, LowerBound(systemsIterator, s), s)
    /\ dispatchLog' = <<<<"Init", s>>>>
    /\ result' = "true"
    /\ UNCHANGED <<fault, outComponent, registryVars, transformVars, matrixVars, managerVars, traversalVars>>
    /\ queryCalls' = <<>>

\* TryAddSystem that calls Init on the instance it was given before it looks
\* the type up
TryAddSystem_InitFirst(s) ==
    /\ fault = "none"
    /\ dispatchLog' = <<<<"Init", s>>>>
    /\ IF systems[s].present
       THEN /\ result' = "false"
            /\ UNCHANGED <<systems, systemsIterator>>
       ELSE /\ systems' = [systems EXCEPT ![s] = [present |-> TRUE, enabled |-> TRUE]]
            /\ systemsIterator' = InsertAt(systemsIterator, LowerBound(systemsIterator, s), s)
            /\ result' = "true"
    /\ UNCHANGED <<fault, outComponent, registryVars, transformVars, matrixVars, managerVars, traversalVars>>
    /\ queryCalls' = <<>>

\* Scene::TryAddSystem(std::unique_ptr<SystemType>): a fresh, enabled instance,
\* which receives Init once it is stored
TryAddSystem(s) ==
    /\ fault = "none"
    /\ IF systems[s].present
       THEN /\ result' = "false"
            /\ dispatchLog' = <<>>
            /\ UNCHANGED <<systems, systemsIterator>>
       ELSE /\ systems' = [systems EXCEPT ![s] = [present |-> TRUE, enabled |-> TRUE]]
            /\ systemsIterator' = InsertAt(systemsIterator, LowerBound(systemsIterator, s), s)
            /\ dispatchLog' = <<<<"Init", s>>>>
            /\ result' = "true"
    /\ UNCHANGED <<fault, outComponent, registryVars, transformVars, matrixVars, managerVars, traversalVars>>
    /\ queryCalls' = <<>>

\* TryRemoveSystem that erases the instance from the map and leaves its id in
\* the order vector
TryRemoveSystem_MapOnly(s) ==
    /\ fault = "none"
    /\ IF ~systems[s].present
       THEN /\ result' = "false"
            /\ dispatchLog' = <<>>
            /\ UNCHANGED systems
       ELSE /\ dispatchLog' = <<<<"Cleanup", s>>>>
            /\ systems' = [systems EXCEPT ![s] = NoSystem]
            /\ result' = "true"
    /\ UNCHANGED <<fault, outComponent, registryVars, transformVars, matrixVars, systemsIterator,
                   managerVars, traversalVars>>
    /\ queryCalls' = <<>>

\* Scene::TryRemoveSystem: the instance receives Cleanup and is erased; the
\* assert on the order vector exists only when asserts are compiled in
TryRemoveSystem(s) ==
    /\ fault = "none"
    /\ IF ~systems[s].present
       THEN /\ result' = "false"
            /\ dispatchLog' = <<>>
            /\ UNCHANGED <<fault, systems, systemsIterator>>
       ELSE \E asserts \in BOOLEAN :
            /\ dispatchLog' = <<<<"Cleanup", s>>>>
            /\ systems' = [systems EXCEPT ![s] = NoSystem]
            /\ IF Contains(systemsIterator, s)
               THEN /\ systemsIterator' = EraseAt(systemsIterator, IndexOf(systemsIterator, s))
                    /\ fault' = "none"
                    /\ result' = "true"
               ELSE /\ UNCHANGED systemsIterator
                    /\ fault' = IF asserts THEN "assert" ELSE "none"
                    /\ result' = IF asserts THEN "none" ELSE "true"
    /\ UNCHANGED <<outComponent, registryVars, transformVars, matrixVars, managerVars, traversalVars>>
    /\ queryCalls' = <<>>

\* the value Scene::HasSystem computes
HasSystemValue(s) == systems[s].present

\* Scene::HasSystem
HasSystem(s) ==
    /\ fault = "none"
    /\ LET inMap == systems[s].present
           inIterator == Contains(systemsIterator, s)
       IN IF inMap = inIterator
          THEN /\ result' = Bool(inMap)
               /\ UNCHANGED fault
          ELSE \E asserts \in BOOLEAN :
               /\ fault' = IF asserts THEN "assert" ELSE "none"
               /\ result' = IF asserts THEN "none" ELSE Bool(inMap)
    /\ dispatchLog' = <<>>
    /\ UNCHANGED <<outComponent, registryVars, transformVars, matrixVars, systems, systemsIterator,
                   managerVars, traversalVars>>
    /\ queryCalls' = <<>>

\* System::SetEnabled on a registered instance
SetEnabled(s, enabled) ==
    /\ fault = "none"
    /\ systems[s].present
    /\ systems' = [systems EXCEPT ![s].enabled = enabled]
    /\ result' = "void"
    /\ dispatchLog' = <<>>
    /\ UNCHANGED <<fault, outComponent, registryVars, transformVars, matrixVars, systemsIterator,
                   managerVars, traversalVars>>
    /\ queryCalls' = <<>>

\* the dispatch loop without the IsEnabled test
RECURSIVE DispatchLoop_NoSkip(_, _, _)
DispatchLoop_NoSkip(phase, ids, calls) ==
    IF ids = <<>> THEN [calls |-> calls, fault |-> "none"]
    ELSE LET id == Head(ids) IN
         IF ~systems[id].present THEN [calls |-> calls, fault |-> "null dereference"]
         ELSE DispatchLoop_NoSkip(phase, Tail(ids), Append(calls, <<phase, id>>))

\* the loop of Scene::Process / ProcessPhysics / ProcessGUI: the calls made,
\* or "fault" once _systems[id] yields a null instance
RECURSIVE DispatchLoop(_, _, _)
DispatchLoop(phase, ids, calls) ==
    IF ids = <<>> THEN [calls |-> calls, fault |-> "none"]
    ELSE LET id == Head(ids) IN
         IF ~systems[id].present THEN [calls |-> calls, fault |-> "null dereference"]
         ELSE IF ~systems[id].enabled THEN DispatchLoop(phase, Tail(ids), calls)
         ELSE DispatchLoop(phase, Tail(ids), Append(calls, <<phase, id>>))

Phases == {"Process", "ProcessPhysics", "ProcessGUI"}

\* Scene::Process, Scene::ProcessPhysics, Scene::ProcessGUI
ProcessPhase(phase) ==
    /\ fault = "none"
    /\ LET r == DispatchLoop(phase, systemsIterator, <<>>) IN
       /\ dispatchLog' = r.calls
       /\ fault' = r.fault
       /\ result' = IF r.fault = "none" THEN "void" ELSE "none"
    /\ UNCHANGED <<outComponent, registryVars, transformVars, matrixVars, systems, systemsIterator,
                   managerVars, traversalVars>>
    /\ queryCalls' = <<>>

\* ----------------------------------------------------------- traversal
NoIterator == [order |-> "none", root |-> NULL, it |-> Iter(<<>>, {}, NULL, TRUE, "none")]

NoTraversal ==
    /\ hierarchy = [valid |-> {}, children |-> <<>>]
    /\ iterator = NoIterator
    /\ yielded = <<>>

Begin(order, g, root) ==
    IF order = "PreOrder" THEN PreOrderBegin(TRUE, g, root) ELSE PostOrderBegin(TRUE, g, root)

Advance(order, g, it) ==
    IF order = "PreOrder" THEN PreOrderAdvance(TRUE, g, it) ELSE PostOrderAdvance(TRUE, g, it)

\* Transform::Traverse<Order>() on the transform of root and begin() of the
\* range: the range-for starts
Traverse(order, root) ==
    /\ fault = "none"
    /\ iterator.it.isEnd
    /\ root \in hierarchy.valid
    /\ LET it == Begin(order, hierarchy, root) IN
       /\ iterator' = [order |-> order, root |-> root, it |-> it]
       /\ fault' = it.fault
    /\ yielded' = <<>>
    /\ result' = "range"
    /\ UNCHANGED <<outComponent, registryVars, transformVars, matrixVars, systemVars,
                   managerVars, hierarchy>>
    /\ queryCalls' = <<>>

\* one round of the range-for: operator* hands the current entity to the
\* loop body, operator++ advances
TraverseNext ==
    /\ fault = "none"
    /\ ~iterator.it.isEnd
    /\ yielded' = Append(yielded, iterator.it.current)
    /\ LET it == Advance(iterator.order, hierarchy, iterator.it) IN
       /\ iterator' = [iterator EXCEPT !.it = it]
       /\ fault' = it.fault
    /\ result' = "void"
    /\ UNCHANGED <<outComponent, registryVars, transformVars, matrixVars, systemVars,
                   managerVars, hierarchy>>
    /\ queryCalls' = <<>>

\* entity->GetTransform().Traverse<Order>() on an entity of the scene and
\* begin() of the range: the range-for starts on the scene's transforms as
\* they are
TraverseEntity(order, root) ==
    /\ fault = "none"
    /\ NoTraversal
    /\ IsValid(root)
    /\ hierarchy' = [valid |-> valid, children |-> children]
    /\ LET it == Begin(order, hierarchy', root) IN
       /\ iterator' = [order |-> order, root |-> root, it |-> it]
       /\ fault' = it.fault
    /\ yielded' = <<>>
    /\ result' = "range"
    /\ UNCHANGED <<outComponent, registryVars, transformVars, matrixVars, systemVars,
                   managerVars>>
    /\ queryCalls' = <<>>

\* the range-for has met end(): the loop is left and its range and iterators
\* go out of scope
TraverseDone ==
    /\ fault = "none"
    /\ iterator # NoIterator
    /\ iterator.it.isEnd
    /\ hierarchy' = [valid |-> {}, children |-> <<>>]
    /\ iterator' = NoIterator
    /\ yielded' = <<>>
    /\ result' = "void"
    /\ UNCHANGED <<fault, outComponent, registryVars, transformVars, matrixVars, systemVars,
                   managerVars>>
    /\ queryCalls' = <<>>

\* ------------------------------------------------------- scene manager
\* what Scene::Init and Scene::Cleanup read and write
SceneState ==
    [hasRegistry |-> hasRegistry, lastHook |-> lastHook, hooks |-> <<>>, hookViews |-> <<>>,
     valid |-> valid, versions |-> versions]

\* what a hook of scene s finds when it is called in state st: whether
\* GetRegistry() returns, and the valid entities of the scene
HookView(st, s, hook) ==
    [scene |-> s, hook |-> hook, registry |-> st.hasRegistry[s],
     valid |-> IF s = TheScene /\ st.hasRegistry[s] THEN st.valid ELSE {}]

\* _registry.emplace() of scene s
RegistryEmplace(st, s) ==
    [st EXCEPT !.hasRegistry[s] = TRUE,
               !.valid = IF s = TheScene THEN {} ELSE @,
               !.versions = IF s = TheScene THEN <<>> ELSE @]

\* _registry->clear(); _registry.reset() of scene s
RegistryRelease(st, s) ==
    [st EXCEPT !.valid = IF s = TheScene THEN {} ELSE @,
               !.versions = IF s = TheScene THEN <<>> ELSE @,
               !.hasRegistry[s] = FALSE]

\* the call of OnEnter or OnExit on scene s in state st
CallHook(st, s, hook) ==
    [st EXCEPT !.lastHook[s] = hook,
               !.hooks = Append(@, <<s, hook>>),
               !.hookViews = Append(@, HookView(st, s, hook))]

\* Scene::Init: a fresh registry, then OnEnter
SceneInit(st, s) == CallHook(RegistryEmplace(st, s), s, "OnEnter")

\* Scene::Cleanup that calls OnExit and keeps the registry
SceneCleanup_KeepsRegistry(st, s) ==
    IF st.hasRegistry[s] THEN CallHook(st, s, "OnExit") ELSE st

\* Scene::Cleanup that releases the registry without the OnExit hook
SceneCleanup_NoExit(st, s) ==
    IF st.hasRegistry[s] THEN RegistryRelease(st, s) ELSE st

\* Scene::Cleanup: OnExit, then the registry is cleared and released; nothing
\* when the scene holds no registry
SceneCleanup(st, s) ==
    IF st.hasRegistry[s] THEN RegistryRelease(CallHook(st, s, "OnExit"), s) ELSE st

\* TryRequestSceneTransition that keeps a request already pending
TryRequestSceneTransition_KeepsPending(scene) ==
    /\ fault = "none"
    /\ IF scene = NULL
       THEN /\ result' = "false"
            /\ UNCHANGED targetScene
       ELSE /\ targetScene' = IF targetScene = NULL THEN scene ELSE targetScene
            /\ result' = "true"
    /\ UNCHANGED <<fault, outComponent, registryVars, transformVars, matrixVars, systemVars, traversalVars,
                   currentScene, hasRegistry, lastHook, hooks, hookViews>>
    /\ queryCalls' = <<>>

\* SceneManager::TryRequestSceneTransition(Scene*)
TryRequestSceneTransition(scene) ==
    /\ fault = "none"
    /\ IF scene = NULL
       THEN /\ result' = "false"
            /\ UNCHANGED targetScene
       ELSE /\ targetScene' = scene
            /\ result' = "true"
    /\ UNCHANGED <<fault, outComponent, registryVars, transformVars, matrixVars, systemVars, traversalVars,
                   currentScene, hasRegistry, lastHook, hooks, hookViews>>
    /\ queryCalls' = <<>>

\* SceneManager::TryRequestCurrentSceneReload
TryRequestCurrentSceneReload ==
    /\ fault = "none"
    /\ IF currentScene # NULL
       THEN /\ targetScene' = currentScene
            /\ result' = "true"
       ELSE /\ result' = "false"
            /\ UNCHANGED targetScene
    /\ UNCHANGED <<fault, outComponent, registryVars, transformVars, matrixVars, systemVars, traversalVars,
                   currentScene, hasRegistry, lastHook, hooks, hookViews>>
    /\ queryCalls' = <<>>

\* the Uuid of scene s is s; one more Uuid belongs to no scene
Uuids == 1..(NumScenes + 1)

\* Object::GetName of the scenes: two scenes may bear the same name
GetName(s) == (s + 1) \div 2

\* the names asked for: those of the scenes and one that no scene bears
Names == 1..(GetName(NumScenes) + 1)

\* World::_objects[typeid(Scene)]: a scene made with CreateAs<Scene, SceneT>
\* is stored under Scene, one made with Create<SceneT> under its own type;
\* the last scene is made the second way
StoredAsScene == {s \in Scenes : s < NumScenes \/ NumScenes = 1}

\* a lookup that answers an unknown Uuid with some scene
TryGetByUuid_Fallback(uuid) ==
    IF uuid \in StoredAsScene THEN uuid ELSE CHOOSE s \in StoredAsScene : TRUE

\* World::TryGet<Scene>(uuid)
TryGetByUuid(uuid) == IF uuid \in StoredAsScene THEN uuid ELSE NULL

\* World::TryGet<Scene>(name): the scenes of that name; the order of the
\* vector is that of an unordered map
TryGetByName(name) == {s \in StoredAsScene : GetName(s) = name}

\* SceneManager::TryRequestSceneTransition(const Uuid&)
TryRequestSceneTransitionByUuid(uuid) ==
    LET scene == TryGetByUuid(uuid) IN
    IF scene = NULL
    THEN /\ fault = "none"
         /\ result' = "false"
         /\ UNCHANGED <<fault, outComponent, registryVars, transformVars, matrixVars, systemVars,
                        managerVars, traversalVars>>
         /\ queryCalls' = <<>>
    ELSE TryRequestSceneTransition(scene)

\* SceneManager::TryRequestSceneTransition(const std::string&)
TryRequestSceneTransitionByName(name) ==
    LET scenes == TryGetByName(name) IN
    IF scenes = {}
    THEN /\ fault = "none"
         /\ result' = "false"
         /\ UNCHANGED <<fault, outComponent, registryVars, transformVars, matrixVars, systemVars,
                        managerVars, traversalVars>>
         /\ queryCalls' = <<>>
    ELSE \E front \in scenes : TryRequestSceneTransition(front)

\* SceneManager::Internal_TryTransitionIfRequested
Internal_TryTransitionIfRequested ==
    /\ fault = "none"
    /\ IF targetScene = NULL
       THEN /\ result' = "false"
            /\ UNCHANGED <<managerVars, traversalVars, registryVars, transformVars, matrixVars>>
       ELSE LET left == IF currentScene # NULL
                        THEN SceneCleanup(SceneState, currentScene)
                        ELSE SceneState
                entered == SceneInit(left, targetScene)
                gone == valid \ entered.valid
            IN /\ currentScene' = targetScene
               /\ targetScene' = NULL
               /\ hasRegistry' = entered.hasRegistry
               /\ lastHook' = entered.lastHook
               /\ hooks' = entered.hooks
               /\ hookViews' = entered.hookViews
               /\ valid' = entered.valid
               /\ versions' = entered.versions
               /\ store' = [e \in Entities |-> IF e \in gone THEN EmptyStore ELSE store[e]]
               /\ parent' = [e \in Entities |-> IF e \in gone THEN NULL ELSE parent[e]]
               /\ children' = [e \in Entities |-> IF e \in gone THEN <<>> ELSE children[e]]
               /\ isModelDirty' = [e \in Entities |-> e \in gone \/ isModelDirty[e]]
               /\ isWorldDirty' = [e \in Entities |-> e \in gone \/ isWorldDirty[e]]
               /\ DefaultMatrices(gone)
               /\ result' = "true"
               /\ UNCHANGED <<numEntities, slot, version>>
    /\ UNCHANGED <<fault, outComponent, systemVars, traversalVars>>
    /\ queryCalls' = <<>>

\* a scene object after construction: no entity, no system
InitScene ==
    /\ fault = "none"
    /\ result = "none"
    /\ outComponent = NULL
    /\ numEntities = 0
    /\ valid = {}
    /\ slot = [e \in Entities |-> 0]
    /\ version = [e \in Entities |-> 0]
    /\ versions = <<>>
    /\ store = [e \in Entities |-> EmptyStore]
    /\ parent = [e \in Entities |-> NULL]
    /\ children = [e \in Entities |-> <<>>]
    /\ isModelDirty = [e \in Entities |-> TRUE]
    /\ isWorldDirty = [e \in Entities |-> TRUE]
    /\ local = [e \in Entities |-> 0]
    /\ cachedModelMat = [e \in Entities |-> IDENTITY]
    /\ cachedWorldMat = [e \in Entities |-> IDENTITY]
    /\ systems = [s \in SystemTypes |-> NoSystem]
    /\ systemsIterator = <<>>
    /\ dispatchLog = <<>>
    /\ queryCalls = <<>>

\* no scene has been entered yet
InitCommon ==
    /\ InitScene
    /\ currentScene = NULL
    /\ targetScene = NULL
    /\ hasRegistry = [s \in Scenes |-> FALSE]
    /\ lastHook = [s \in Scenes |-> "none"]
    /\ hooks = <<>>
    /\ hookViews = <<>>
    /\ NoTraversal

\* the first transition has entered TheScene
InitActive ==
    /\ InitScene
    /\ currentScene = TheScene
    /\ targetScene = NULL
    /\ hasRegistry = [s \in Scenes |-> s = TheScene]
    /\ lastHook = [s \in Scenes |-> IF s = TheScene THEN "OnEnter" ELSE "none"]
    /\ hooks = <<<<TheScene, "OnEnter">>>>
    /\ hookViews = <<[scene |-> TheScene, hook |-> "OnEnter", registry |-> TRUE, valid |-> {}]>>
    /\ NoTraversal

\* the hierarchies of the entities 1..NumTestEntities in which every entity
\* but 1 is the child of an entity created before it, the children of each
\* entity listed in the order of creation or in the reverse of it
TreeNodes == 1..NumTestEntities

ChildrenOf(par, p, reversed) ==
    LET cs == {c \in 2..NumTestEntities : par[c] = p}
        ascending == [i \in 1..Cardinality(cs) |->
                        CHOOSE c \in cs : Cardinality({d \in cs : d < c}) = i - 1]
    IN IF reversed THEN Reverse(ascending) ELSE ascending

Hierarchies ==
    {[valid |-> TreeNodes, children |-> [p \in TreeNodes |-> ChildrenOf(par, p, reversed)]] :
        par \in {f \in [2..NumTestEntities -> TreeNodes] : \A c \in 2..NumTestEntities : f[c] < c},
        reversed \in BOOLEAN}

\* the hierarchy TestScene::OnEnter builds: 1 -> (2 -> (4, 5), 3 -> (6, 7))
TestHierarchy ==
    [valid |-> 1..7,
     children |-> [p \in 1..7 |-> IF p = 1 THEN <<2, 3>> ELSE IF p = 2 THEN <<4, 5>>
                                  ELSE IF p = 3 THEN <<6, 7>> ELSE <<>>]]

\* TheScene is entered and holds one of the hierarchies
InitTraversal ==
    /\ InitScene
    /\ currentScene = TheScene
    /\ targetScene = NULL
    /\ hasRegistry = [s \in Scenes |-> s = TheScene]
    /\ lastHook = [s \in Scenes |-> IF s = TheScene THEN "OnEnter" ELSE "none"]
    /\ hooks = <<<<TheScene, "OnEnter">>>>
    /\ hookViews = <<[scene |-> TheScene, hook |-> "OnEnter", registry |-> TRUE, valid |-> {}]>>
    /\ hierarchy \in Hierarchies
    /\ iterator = NoIterator
    /\ yielded = <<>>

Init == InitCommon

\* ------------------------------------------------------- specifications
\* the Transform operations on the entities of one scene
NextHierarchy ==
    \/ CreateEntity
    \/ \E e \in Entities, p \in EntityOrNull \cup {ForeignEntity} : TrySetParent(e, p)
    \/ \E e \in Entities, c \in Entities : TryAddChild(e, c)
    \/ \E e \in Entities, c \in Entities : TryRemoveChild(e, c)
    \/ \E e \in Entities, i \in 0..(MaxEntities - 1) : TryRemoveChildAt(e, i)
    \/ \E e \in Entities, i \in 0..(MaxEntities - 1) : TrySetSiblingIndex(e, i)

SpecHierarchy == InitActive /\ [][NextHierarchy]_vars

\* reparenting and the sibling order of the children of one parent
NextSiblings ==
    \/ CreateEntity
    \/ \E e \in Entities, p \in Entities : TrySetParent(e, p)
    \/ \E e \in Entities, i \in 0..MaxEntities : TrySetSiblingIndex(e, i)
    \/ \E e \in Entities : TrySetAsFirstSibling(e)
    \/ \E e \in Entities : TrySetAsLastSibling(e)
    \/ \E e \in Entities : GetSiblingIndex(e)
    \/ \E e \in Entities : GetRoot(e)

SpecSiblings == InitActive /\ [][NextSiblings]_vars

\* every entity of the scene holds a Transform, so that GetTransform() on it,
\* on its parent and on its children is defined
AllHoldTransform == \A e \in valid : HasComponent(e, "Transform")

\* the sibling operations in a scene whose user code also removes the Transform
\* of an entity and adds a fresh one, which forgets the parent and the children
\* it held while the other entities keep their links to it
NextCorruption ==
    \/ numEntities < MaxComponentEntities /\ CreateEntity
    \/ \E e \in Entities : TryRemoveComponent(e, "Transform")
    \/ \E e \in Entities : TryAddComponent(e, "Transform", 0)
    \/ \E e \in Entities, p \in Entities : AllHoldTransform /\ TrySetParent(e, p)
    \/ \E e \in Entities, i \in 0..MaxEntities : AllHoldTransform /\ TrySetSiblingIndex(e, i)
    \/ \E e \in Entities : AllHoldTransform /\ GetSiblingIndex(e)

SpecCorruption == InitActive /\ [][NextCorruption]_vars

\* the Transform operations together with deferred destruction: an entity is
\* marked by giving it the DestroyTag
NextScene ==
    \/ NextHierarchy
    \/ \E e \in Entities : TryAddTag(e, "DestroyTag")
    \/ ProcessEntityCleanup

SpecScene == InitActive /\ [][NextScene]_vars

\* reparenting and deferred destruction alone
NextDestruction ==
    \/ CreateEntity
    \/ \E e \in Entities, p \in EntityOrNull \cup {ForeignEntity} : TrySetParent(e, p)
    \/ \E e \in Entities : TryAddTag(e, "DestroyTag")
    \/ ProcessEntityCleanup

SpecDestruction == InitActive /\ [][NextDestruction]_vars

\* the same, with entities marked through Entity::MarkForDestruction as well
NextMarking ==
    \/ NextDestruction
    \/ \E e \in Entities : MarkForDestruction(e)

SpecMarking == InitActive /\ [][NextMarking]_vars

\* tags and components of the entities of one scene
NextComponents ==
    \/ (numEntities < MaxComponentEntities /\ CreateEntity)
    \/ \E e \in Entities, t \in TagTypes : TryAddTag(e, t)
    \/ \E e \in Entities, t \in TagTypes : TryRemoveTag(e, t)
    \/ \E e \in Entities, t \in UserComponentTypes, a \in 0..MaxArg : TryAddComponent(e, t, a)
    \/ \E e \in Entities, t \in UserComponentTypes : TryRemoveComponent(e, t)

SpecComponents == InitActive /\ [][NextComponents]_vars

\* local values and matrices of the transforms of one scene's hierarchy
NextMatrices ==
    \/ (numEntities < MaxComponentEntities /\ CreateEntity)
    \/ \E e \in Entities, p \in Entities : TrySetParent(e, p)
    \/ \E e \in Entities, v \in 0..MaxValue : SetLocal(e, v)
    \/ \E e \in Entities : GetModelMatrix(e)
    \/ \E e \in Entities : GetWorldMatrix(e)

SpecMatrices == InitActive /\ [][NextMatrices]_vars

\* the dirty flags of the transforms of a hierarchy up to three levels deep;
\* the setters write the default value, the flags not depending on the value
NextDirtyFlags ==
    \/ CreateEntity
    \/ \E e \in Entities, p \in Entities : TrySetParent(e, p)
    \/ \E e \in Entities : SetLocal(e, 0)
    \/ \E e \in Entities : GetModelMatrix(e)
    \/ \E e \in Entities : GetWorldMatrix(e)

SpecDirtyFlags == InitActive /\ [][NextDirtyFlags]_vars

\* the dirty flags in a scene whose user code also removes the Transform of
\* an entity and adds a fresh one
NextTransformReset ==
    \/ numEntities < MaxComponentEntities /\ CreateEntity
    \/ \E e \in Entities : TryRemoveComponent(e, "Transform")
    \/ \E e \in Entities : TryAddComponent(e, "Transform", 0)
    \/ \E e \in Entities, p \in Entities : AllHoldTransform /\ TrySetParent(e, p)
    \/ \E e \in Entities : AllHoldTransform /\ SetLocal(e, 0)
    \/ \E e \in Entities : AllHoldTransform /\ GetWorldMatrix(e)

SpecTransformReset == InitActive /\ [][NextTransformReset]_vars

\* range-for loops over Transform::Traverse<PreOrder> and <PostOrder>
NextTraversal ==
    \/ \E order \in {"PreOrder", "PostOrder"}, root \in TreeNodes : Traverse(order, root)
    \/ TraverseNext

SpecTraversal == InitTraversal /\ [][NextTraversal]_vars

\* the hierarchy operations between range-for loops over the transforms they
\* have arranged
NextHierarchyTraversal ==
    \/ NoTraversal /\ CreateEntity
    \/ \E e \in Entities, p \in Entities : NoTraversal /\ TrySetParent(e, p)
    \/ \E e \in Entities, c \in Entities : NoTraversal /\ TryAddChild(e, c)
    \/ \E e \in Entities, c \in Entities : NoTraversal /\ TryRemoveChild(e, c)
    \/ \E e \in Entities, i \in 0..(MaxEntities - 1) : NoTraversal /\ TrySetSiblingIndex(e, i)
    \/ \E order \in {"PreOrder", "PostOrder"}, e \in Entities : TraverseEntity(order, e)
    \/ TraverseNext
    \/ TraverseDone

SpecHierarchyTraversal == InitActive /\ [][NextHierarchyTraversal]_vars

\* a range-for that has started keeps running
SpecHierarchyTraversalFair == SpecHierarchyTraversal /\ WF_vars(TraverseNext)

\* the system scheduler of one scene
NextSystems ==
    \/ \E s \in SystemTypes : TryAddSystem(s)
    \/ \E s \in SystemTypes : TryRemoveSystem(s)
    \/ \E s \in SystemTypes : HasSystem(s)
    \/ \E s \in SystemTypes, b \in BOOLEAN : SetEnabled(s, b)
    \/ \E ph \in Phases : ProcessPhase(ph)

SpecSystems == InitActive /\ [][NextSystems]_vars

\* scene transitions
NextManager ==
    \/ \E s \in Scenes \cup {NULL} : TryRequestSceneTransition(s)
    \/ TryRequestCurrentSceneReload
    \/ Internal_TryTransitionIfRequested

SpecManager == Init /\ [][NextManager]_vars

\* scene transitions requested by pointer, by Uuid and by name
NextRequests ==
    \/ \E s \in Scenes \cup {NULL} : TryRequestSceneTransition(s)
    \/ \E u \in Uuids : TryRequestSceneTransitionByUuid(u)
    \/ \E n \in Names : TryRequestSceneTransitionByName(n)
    \/ TryRequestCurrentSceneReload
    \/ Internal_TryTransitionIfRequested

SpecRequests == Init /\ [][NextRequests]_vars

\* no two Entity objects of the scene hold the same handle: the model follows
\* the scene up to the first state in which two do
NoSharedHandle ==
    \A x, y \in 1..numEntities :
        (slot[x] = slot[y] /\ version[x] = version[y]) => x = y

\* one scene with its entities, tags and components across transitions,
\* reloads and re-entries
NextLifecycle ==
    \/ \E s \in {TheScene, OtherScene} : TryRequestSceneTransition(s)
    \/ TryRequestCurrentSceneReload
    \/ Internal_TryTransitionIfRequested
    \/ (NoSharedHandle /\ numEntities < MaxComponentEntities /\ CreateEntity)
    \/ \E e \in EntityOrNull : NoSharedHandle /\ IsEntityHandleValidCall(e)
    \/ \E e \in Entities, t \in {"DestroyTag"} \cup UserComponentTypes :
            NoSharedHandle /\ HasTagOrComponent(e, t)
    \/ \E e \in Entities : NoSharedHandle /\ TryAddTag(e, "DestroyTag")
    \/ \E e \in Entities : NoSharedHandle /\ TryRemoveTag(e, "DestroyTag")
    \/ \E e \in Entities, t \in UserComponentTypes :
            NoSharedHandle /\ TryAddComponent(e, t, 0)
    \/ \E e \in Entities, t \in UserComponentTypes :
            NoSharedHandle /\ TryGetComponent(e, t)
    \/ \E e \in Entities, t \in UserComponentTypes :
            NoSharedHandle /\ TryRemoveComponent(e, t)
    \/ \E t \in UserComponentTypes : NoSharedHandle /\ Query({t})
    \/ (NoSharedHandle /\ ProcessEntityCleanup)

SpecLifecycle == Init /\ [][NextLifecycle]_vars

\* the systems of one scene across transitions, reloads and re-entries
NextSceneSystems ==
    \/ \E s \in {TheScene, OtherScene} : TryRequestSceneTransition(s)
    \/ TryRequestCurrentSceneReload
    \/ Internal_TryTransitionIfRequested
    \/ \E s \in SystemTypes : TryAddSystem(s)
    \/ \E s \in SystemTypes : TryRemoveSystem(s)
    \/ \E s \in SystemTypes : HasSystem(s)

SpecSceneSystems == Init /\ [][NextSceneSystems]_vars

\* the type lists of the queries made: one type or several
QueryTypeSets == (SUBSET {"Transform", "ExampleComponent", "DestroyTag"}) \ {{}}

\* queries over the tags and components of one scene's entities, some of
\* them erased by deferred destruction
NextQuery ==
    \/ (numEntities < MaxComponentEntities /\ CreateEntity)
    \/ \E e \in Entities : TryAddTag(e, "DestroyTag")
    \/ \E e \in Entities, t \in UserComponentTypes : TryAddComponent(e, t, 0)
    \/ \E e \in Entities, t \in UserComponentTypes : TryRemoveComponent(e, t)
    \/ ProcessEntityCleanup
    \/ \E ts \in QueryTypeSets : Query(ts)

SpecQuery == InitActive /\ [][NextQuery]_vars

\* ------------------------------------------------------------ properties
Acyclic == \A e \in Entities : e \notin Ancestors(parent, e)

\* C1: following parent links from any entity never returns to that entity,
\* and a TrySetParent(newParent) call whose newParent is the entity itself or
\* one of its descendants returns false and changes no parent link and no
\* children list.
C1_AcyclicAndCyclesRejected ==
    /\ []Acyclic
    /\ [][\A e \in Entities, newParent \in Entities :
            (/\ TrySetParent(e, newParent)
             /\ IsValid(newParent)
             /\ (newParent = e \/ IsDescendantOf(parent, newParent, e)))
            => (result' = "false" /\ parent' = parent /\ children' = children)]_vars

\* C2: for all valid entities e and p, e's parent is p if and only if p's
\* children list contains e, after every hierarchy call and every
\* ProcessEntityCleanup.
C2_BidirectionalConsistency ==
    \A e \in valid, p \in valid : (parent[e] = p) <=> Contains(children[p], e)

\* a valid child linked to a valid parent in a scene where ProcessEntityCleanup
\* has erased an entity
C2_Witness ==
    /\ fault = "none"
    /\ \E e \in valid, p \in valid :
        /\ e # p
        /\ parent[e] = p
        /\ Contains(children[p], e)
    /\ \E x \in 1..numEntities : x \notin valid

\* the root r and the valid entities below it
Subtree(r) == {r} \cup {x \in valid : IsDescendantOf(parent, x, r)}

\* C3: when marked entities are cleaned up by one ProcessEntityCleanup call,
\* every entity of each marked tree (the root and all its descendants) is
\* invalid afterwards, and every entity outside all marked subtrees is still
\* valid.
C3_CascadeDestruction ==
    [][ProcessEntityCleanup =>
        /\ \A r \in Marked : \A x \in Subtree(r) : x \notin valid'
        /\ \A x \in valid : (\A r \in Marked : x \notin Subtree(r)) => x \in valid']_vars

\* C4: a destroyed entity is removed from its former parent's children list:
\* no valid entity's Transform names an erased entity as its parent or as
\* one of its children.
C4_NoDanglingLinks ==
    \A e \in valid :
        /\ parent[e] # NULL => parent[e] \in valid
        /\ \A i \in 1..Len(children[e]) : children[e][i] \in valid

NoDuplicates(s) == \A i, j \in 1..Len(s) : s[i] = s[j] => i = j

\* C5: TryAddSystem<S> returns true exactly when no system of type S is
\* registered, TryRemoveSystem<S> returns true exactly when one is, HasSystem<S>
\* changes only at a successful add (to true) and a successful remove (to
\* false), and at most one instance per system type is ever registered.
C5_SystemUniqueness ==
    /\ [](NoDuplicates(systemsIterator))
    /\ [][\A s \in SystemTypes :
            /\ TryAddSystem(s) =>
                 (result' = Bool(~HasSystemValue(s)) /\ systems'[s].present)
            /\ TryRemoveSystem(s) =>
                 (result' = Bool(HasSystemValue(s)) /\ ~systems'[s].present)
            /\ HasSystem(s) => result' = Bool(HasSystemValue(s))
            /\ (systems'[s].present # HasSystemValue(s)) =>
                 (result' = "true" /\ (TryAddSystem(s) \/ TryRemoveSystem(s)))]_vars

\* every system type is registered and the last call, a second TryAddSystem
\* of one of them, was rejected
C5_Witness ==
    /\ fault = "none"
    /\ \A s \in SystemTypes : HasSystemValue(s)
    /\ Len(systemsIterator) = NumSystemTypes
    /\ result = "false"

\* C6: each phase dispatch invokes the registered systems in non-decreasing
\* execution order, after any sequence of TryAddSystem and TryRemoveSystem.
C6_DispatchInExecutionOrder ==
    \A i, j \in 1..Len(dispatchLog) :
        i < j => GetExecutionOrder(dispatchLog[i][2]) <= GetExecutionOrder(dispatchLog[j][2])

\* a dispatch that called systems of different execution orders
C6_Witness ==
    /\ fault = "none"
    /\ Len(dispatchLog) >= 2
    /\ GetExecutionOrder(dispatchLog[1][2]) < GetExecutionOrder(dispatchLog[Len(dispatchLog)][2])

\* C7: a newly added system is placed in the order vector after every
\* already-registered system of equal execution order.
C7_StableOnTies ==
    [][\A s \in SystemTypes :
        (TryAddSystem(s) /\ result' = "true") =>
            \A t \in SystemTypes :
                (systems[t].present /\ GetExecutionOrder(t) = GetExecutionOrder(s))
                => IndexOf(systemsIterator', t) < IndexOf(systemsIterator', s)]_vars

Count(s, x) == Cardinality({i \in 1..Len(s) : s[i] = x})

\* C8: in one phase dispatch every registered, enabled system receives
\* exactly one call of that phase and every disabled system none, in the
\* order of the order vector; SetEnabled neither unregisters a system nor
\* moves it in the order vector.
C8_EnabledSystemsDispatched ==
    [][/\ \A ph \in Phases : ProcessPhase(ph) =>
            /\ \A s \in SystemTypes : \A q \in Phases :
                 Count(dispatchLog', <<q, s>>) =
                    IF q = ph /\ systems[s].present /\ systems[s].enabled THEN 1 ELSE 0
            /\ \A i, j \in 1..Len(dispatchLog') :
                 i < j => IndexOf(systemsIterator, dispatchLog'[i][2])
                            < IndexOf(systemsIterator, dispatchLog'[j][2])
       /\ \A s \in SystemTypes, b \in BOOLEAN : SetEnabled(s, b) =>
            /\ systems'[s].present
            /\ systems'[s].enabled = b
            /\ systemsIterator' = systemsIterator]_vars

\* a dispatch has called an enabled system and skipped a registered,
\* disabled one that precedes it in the order vector
C8_Witness ==
    /\ fault = "none"
    /\ result = "void"
    /\ \E s \in SystemTypes, t \in SystemTypes, ph \in Phases :
        /\ systems[s].present /\ ~systems[s].enabled
        /\ systems[t].present /\ systems[t].enabled
        /\ IndexOf(systemsIterator, s) < IndexOf(systemsIterator, t)
        /\ dispatchLog = <<<<ph, t>>>>
        /\ Len(systemsIterator) = 2

OthersUntouched(e, t) ==
    \A e2 \in Entities, t2 \in Types :
        (e2 # e \/ t2 # t) => store'[e2][t2] = store[e2][t2]

\* C9: TryAdd<T>(e) returns true exactly when e did not hold T, a false
\* return leaves the store untouched and yields a null out-pointer;
\* TryRemove<T>(e) returns true exactly when e held T; Has<T>(e) changes only
\* at a successful add or remove of T on e; no other (entity, type) pair is
\* affected.
C9_AddRemoveContract ==
    [][\A e \in valid :
        /\ \A t \in TagTypes :
            /\ TryAddTag(e, t) =>
                 (/\ result' = Bool(~HasTag(e, t))
                  /\ store'[e][t] # Absent
                  /\ (HasTag(e, t) => store' = store)
                  /\ OthersUntouched(e, t))
            /\ TryRemoveTag(e, t) =>
                 (/\ result' = Bool(HasTag(e, t))
                  /\ store'[e][t] = Absent
                  /\ OthersUntouched(e, t))
        /\ \A t \in UserComponentTypes :
            /\ \A a \in 0..MaxArg : TryAddComponent(e, t, a) =>
                 (/\ result' = Bool(~HasComponent(e, t))
                  /\ (HasComponent(e, t) => store' = store /\ outComponent' = NULL)
                  /\ (~HasComponent(e, t) => store'[e][t] = a /\ outComponent' = e)
                  /\ OthersUntouched(e, t))
            /\ TryRemoveComponent(e, t) =>
                 (/\ result' = Bool(HasComponent(e, t))
                  /\ store'[e][t] = Absent
                  /\ OthersUntouched(e, t))
        /\ \A t \in Types :
            ((store'[e][t] # Absent) # (store[e][t] # Absent)) =>
                result' = "true"]_vars

\* a second TryAddComponent was rejected: the component keeps the value it
\* was built with and the out-pointer is null, while another entity holds a tag
C9_Witness ==
    /\ fault = "none"
    /\ result = "false"
    /\ outComponent = NULL
    /\ \E e \in valid, e2 \in valid :
        /\ e # e2
        /\ store[e]["ExampleComponent"] = MaxArg
        /\ store[e2]["ExampleTag"] # Absent
        /\ store[e2]["ExampleComponent"] = Absent

\* C10: TryRequestSceneTransition never changes the current scene; the next
\* Internal_TryTransitionIfRequested makes the most recently requested scene
\* current, returns true and clears the request; with no request pending it
\* returns false and changes nothing.
C10_TransitionProtocol ==
    [][/\ \A s \in Scenes \cup {NULL} : TryRequestSceneTransition(s) =>
            /\ currentScene' = currentScene
            /\ s # NULL => (targetScene' = s /\ result' = "true")
       /\ Internal_TryTransitionIfRequested =>
            IF targetScene # NULL
            THEN /\ currentScene' = targetScene
                 /\ targetScene' = NULL
                 /\ result' = "true"
            ELSE /\ result' = "false"
                 /\ UNCHANGED managerVars]_vars

\* a transition has just replaced one scene by another and cleared the request
C10_Witness ==
    /\ fault = "none"
    /\ result = "true"
    /\ targetScene = NULL
    /\ currentScene # NULL
    /\ lastHook[currentScene] = "OnEnter"
    /\ \E s \in Scenes \ {currentScene} : lastHook[s] = "OnExit"

\* a call of an entity, tag, component, query or destruction operation of the
\* scene on an Entity object (or on no entity, for those that take none)
SceneOperationCall ==
    \/ CreateEntity
    \/ ProcessEntityCleanup
    \/ \E t \in Types : Query({t})
    \/ \E e \in Entities :
        \/ IsEntityHandleValidCall(e)
        \/ \E t \in Types :
            \/ HasTagOrComponent(e, t)
            \/ TryAddTag(e, t)
            \/ TryRemoveTag(e, t)
            \/ TryGetComponent(e, t)
            \/ TryRemoveComponent(e, t)
            \/ \E a \in 0..MaxArg : TryAddComponent(e, t, a)

PrevHook(hs, i, s) ==
    LET earlier == {j \in 1..(i - 1) : hs[j][1] = s} IN
    IF earlier = {} THEN lastHook[s]
    ELSE hs[CHOOSE j \in earlier : \A k \in earlier : k <= j][2]

\* every hook of hs is the opposite of the hook its scene received before it,
\* the first hook of a scene being OnEnter
Alternates(hs) ==
    \A i \in 1..Len(hs) :
        LET p == PrevHook(hs, i, hs[i][1]) IN
        IF hs[i][2] = "OnEnter" THEN p \in {"none", "OnExit"} ELSE p = "OnEnter"

\* C12: every scene receives OnEnter and OnExit strictly alternately, starting
\* with OnEnter: a committed transition delivers exactly one OnExit to the
\* scene it leaves and then exactly one OnEnter to the scene it enters (a
\* reload delivers both to the same scene, in that order), and no other step
\* delivers a hook.
C12_HooksAlternate ==
    [][IF Internal_TryTransitionIfRequested /\ targetScene # NULL
       THEN /\ hooks' = (IF currentScene # NULL
                         THEN <<<<currentScene, "OnExit">>>> ELSE <<>>)
                        \o <<<<targetScene, "OnEnter">>>>
            /\ Alternates(hooks')
            /\ \A s \in Scenes : lastHook'[s] = PrevHook(hooks', Len(hooks') + 1, s)
       ELSE lastHook' = lastHook /\ hooks' = hooks]_vars

\* a reload was committed: the current scene received OnExit, then OnEnter
C12_Witness ==
    /\ currentScene # NULL
    /\ targetScene = NULL
    /\ hooks = <<<<currentScene, "OnExit">>, <<currentScene, "OnEnter">>>>
    /\ result = "true"

\* the world matrix of e from the local values along its parent chain
RECURSIVE WorldOf(_, _)
WorldOf(e, fuel) ==
    IF parent[e] = NULL \/ fuel = 0 THEN CalculateModel(e)
    ELSE WorldOf(parent[e], fuel - 1) \o CalculateModel(e)

\* a cached matrix that is not flagged dirty equals the matrix computed anew
CachesFresh ==
    fault = "none" =>
        \A e \in valid :
            /\ ~isModelDirty[e] => cachedModelMat[e] = CalculateModel(e)
            /\ ~isWorldDirty[e] => cachedWorldMat[e] = WorldOf(e, MaxEntities)

SubtreeIn(g, e) == {e} \cup StrictDescendants(g.children, g.valid, e)

\* x comes before y in the sequence of yielded entities
YieldedBefore(x, y) ==
    \E i, j \in 1..Len(yielded) : i < j /\ yielded[i] = x /\ yielded[j] = y

\* the subtree of an earlier sibling is yielded before that of a later one
SiblingsInListOrder ==
    \A p \in hierarchy.valid :
        \A a, b \in 1..Len(hierarchy.children[p]) :
            a < b =>
                \A x \in SubtreeIn(hierarchy, hierarchy.children[p][a]),
                   y \in SubtreeIn(hierarchy, hierarchy.children[p][b]) :
                    (x \in SeqToSet(yielded) /\ y \in SeqToSet(yielded)) => YieldedBefore(x, y)

\* a traversal yields entities of the start entity's subtree, none twice, and
\* when it has ended it has yielded them all
YieldsSubtreeOnce ==
    /\ fault = "none"
    /\ \A i, j \in 1..Len(yielded) : yielded[i] = yielded[j] => i = j
    /\ SeqToSet(yielded) \subseteq SubtreeIn(hierarchy, iterator.root)
    /\ iterator.it.isEnd => SeqToSet(yielded) = SubtreeIn(hierarchy, iterator.root)

\* C14: Traverse<PreOrder> started at an entity yields every entity of its
\* subtree exactly once, each entity before all of its descendants and
\* siblings in children-list order; from entity 1 of the hierarchy
\* 1 -> (2 -> (4, 5), 3 -> (6, 7)) it yields 1, 2, 4, 5, 3, 6, 7.
C14_PreOrderTraversal ==
    iterator.order = "PreOrder" =>
        /\ YieldsSubtreeOnce
        /\ \A x \in SeqToSet(yielded) :
            \A y \in StrictDescendants(hierarchy.children, hierarchy.valid, x) :
                y \in SeqToSet(yielded) => YieldedBefore(x, y)
        /\ SiblingsInListOrder
        /\ (hierarchy = TestHierarchy /\ iterator.root = 1 /\ iterator.it.isEnd)
              => yielded = <<1, 2, 4, 5, 3, 6, 7>>

\* the pre-order loop of TestScene::OnEnter has run to its end
C14_Witness ==
    /\ hierarchy = TestHierarchy
    /\ iterator.order = "PreOrder"
    /\ iterator.root = 1
    /\ iterator.it.isEnd
    /\ yielded = <<1, 2, 4, 5, 3, 6, 7>>

\* C15: Traverse<PostOrder> started at an entity yields every entity of its
\* subtree exactly once, each entity only after all of its descendants and
\* siblings in children-list order, the start entity last; from entity 1 of
\* the hierarchy 1 -> (2 -> (4, 5), 3 -> (6, 7)) it yields 4, 5, 2, 6, 7, 3, 1.
C15_PostOrderTraversal ==
    iterator.order = "PostOrder" =>
        /\ YieldsSubtreeOnce
        /\ \A x \in SeqToSet(yielded) :
            \A y \in StrictDescendants(hierarchy.children, hierarchy.valid, x) :
                YieldedBefore(y, x)
        /\ SiblingsInListOrder
        /\ iterator.it.isEnd => yielded[Len(yielded)] = iterator.root
        /\ (hierarchy = TestHierarchy /\ iterator.root = 1 /\ iterator.it.isEnd)
              => yielded = <<4, 5, 2, 6, 7, 3, 1>>

\* the post-order loop of TestScene::OnEnter has run to its end
C15_Witness ==
    /\ hierarchy = TestHierarchy
    /\ iterator.order = "PostOrder"
    /\ iterator.root = 1
    /\ iterator.it.isEnd
    /\ yielded = <<4, 5, 2, 6, 7, 3, 1>>

C17_MarkOnlyTags ==
    /\ [][\A e \in Entities :
            MarkForDestruction(e) =>
                /\ store' = IF e \in valid THEN [store EXCEPT ![e]["DestroyTag"] = 0] ELSE store
                /\ (e \in valid /\ Has(e, "DestroyTag")) => store' = store
                /\ fault' = "none"
                /\ UNCHANGED <<numEntities, valid, slot, version, versions, transformVars,
                               matrixVars>>]_vars
    /\ [][(/\ valid' # valid
            /\ \E r \in Marked : \E x \in Subtree(r) : x \notin valid')
           => ProcessEntityCleanup]_vars

\* a marked entity with a child was marked once more and both are still valid
C17_Witness ==
    /\ fault = "none"
    /\ result = "void"
    /\ \E r \in Marked : \E x \in valid : parent[x] = r /\ Contains(children[r], x)
    /\ \E x \in 1..numEntities : x \notin valid

\* C18: when an entity and one of its descendants are both marked, one
\* ProcessEntityCleanup call completes without error, whatever the order of
\* the snapshot, and leaves no entity of the marked subtrees valid.
C18_NestedMarksCleanedUp ==
    [][(/\ ProcessEntityCleanup
        /\ \E a, b \in Marked : a # b /\ b \in Subtree(a))
       => /\ fault' = "none"
          /\ result' = "void"
          /\ \A r \in Marked : \A x \in Subtree(r) : x \notin valid']_vars

\* C19: an entity whose handle is invalid is never reported valid again, and
\* CreateEntity never returns a handle that an entity of the scene holds or
\* ever held, also when the scene was cleaned up and initialised again in
\* between.
C19_HandlesNeverReused ==
    /\ []NoSharedHandle
    /\ [][\A x \in 1..numEntities : x \notin valid => x \notin valid']_vars

\* C20: when the scene is cleaned up, every registered system is
\* unregistered, so that a scene entered again starts with no registered
\* system.
C20_SystemsRemovedAtCleanup ==
    [][(/\ Internal_TryTransitionIfRequested
        /\ targetScene # NULL
        /\ currentScene = TheScene)
       => /\ \A s \in SystemTypes : ~systems'[s].present
          /\ systemsIterator' = <<>>]_vars

\* C21: TryRemoveChild(child) returns true exactly when child is a direct
\* child of this transform, and after it returns true the child's parent is
\* null and the child is no longer in this transform's children list;
\* TryRemoveChild(index) does the same for the child at that index and returns
\* false, changing nothing, for an out-of-range index.
C21_RemoveChildDetaches ==
    [][\A e \in valid :
        /\ \A child \in 1..numEntities :
            TryRemoveChild(e, child) =>
                /\ result' = Bool(Contains(children[e], child))
                /\ result' = "true" =>
                     (parent'[child] = NULL /\ ~Contains(children'[e], child))
                /\ result' = "false" => UNCHANGED <<transformVars, matrixVars>>
        /\ \A index \in 0..(MaxEntities - 1) :
            TryRemoveChildAt(e, index) =>
                IF index >= Len(children[e])
                THEN result' = "false" /\ UNCHANGED <<transformVars, matrixVars>>
                ELSE /\ result' = "true"
                     /\ parent'[children[e][index + 1]] = NULL
                     /\ ~Contains(children'[e], children[e][index + 1])]_vars

\* C22: TryAddChild(child) returns true only if afterwards child's parent is
\* this entity and child has been removed from its previous parent's children;
\* it returns false, changing nothing, when child is invalid, is this entity
\* itself, or is an ancestor of this entity (adding it would create a cycle).
C22_AddChildContract ==
    [][\A e \in valid, child \in 1..numEntities :
        TryAddChild(e, child) =>
            /\ result' = "true" =>
                 /\ parent'[child] = e
                 /\ Contains(children'[e], child)
                 /\ \A old \in valid \ {e} : ~Contains(children'[old], child)
            /\ (child \notin valid \/ child = e \/ IsDescendantOf(parent, e, child)) =>
                 /\ result' = "false"
                 /\ fault' = "none"
                 /\ UNCHANGED <<transformVars, matrixVars>>]_vars

\* C23: a Query over the types T1..Tn calls the callback exactly once for each
\* valid entity of the scene that holds all listed types at that moment, and
\* for no other entity, for one listed type as well as for several.
C23_QueryVisitsHolders ==
    [][\A ts \in QueryTypeSets :
        (HasRegistry /\ Query(ts)) =>
            /\ fault' = "none"
            /\ \A e \in Entities :
                Count(queryCalls', e) =
                    IF e \in valid /\ (\A t \in ts : store[e][t] # Absent) THEN 1 ELSE 0]_vars

\* a query has called back for the one entity that holds a tag and a
\* component, and not for a valid entity that holds only the component
C23_Witness ==
    /\ fault = "none"
    /\ result = "void"
    /\ Len(queryCalls) = 1
    /\ \E e \in valid, e2 \in valid :
        /\ queryCalls = <<e>>
        /\ e2 # e
        /\ store[e]["DestroyTag"] # Absent /\ store[e]["ExampleComponent"] # Absent
        /\ store[e2]["DestroyTag"] = Absent /\ store[e2]["ExampleComponent"] # Absent

\* C24: TryRequestSceneTransition returns false for a name or Uuid that matches
\* no scene and for a null scene, and then leaves the current scene and a
\* request already pending unchanged; TryRequestCurrentSceneReload returns
\* false and queues nothing when no scene is active.
C24_FailedRequestChangesNothing ==
    [][/\ \A u \in Uuids :
            (u \notin Scenes /\ TryRequestSceneTransitionByUuid(u)) =>
                (result' = "false" /\ UNCHANGED <<currentScene, targetScene>>)
       /\ \A n \in Names :
            ((\A s \in Scenes : GetName(s) # n) /\ TryRequestSceneTransitionByName(n)) =>
                (result' = "false" /\ UNCHANGED <<currentScene, targetScene>>)
       /\ TryRequestSceneTransition(NULL) =>
            (result' = "false" /\ UNCHANGED <<currentScene, targetScene>>)
       /\ (currentScene = NULL /\ TryRequestCurrentSceneReload) =>
            (result' = "false" /\ UNCHANGED <<currentScene, targetScene>>)]_vars

\* a request was refused while a scene is active and another request is
\* pending
C24_Witness ==
    /\ fault = "none"
    /\ result = "false"
    /\ currentScene # NULL
    /\ targetScene # NULL
    /\ targetScene # currentScene

MovedToIndex(e, k) ==
    LET p == parent[e] IN
    /\ result' = "true"
    /\ fault' = "none"
    /\ Len(children'[p]) = Len(children[p])
    /\ children'[p][k + 1] = e
    /\ SelectSeq(children'[p], LAMBDA y : y # e) = SelectSeq(children[p], LAMBDA y : y # e)
    /\ \A x \in Entities \ {p} : children'[x] = children[x]
    /\ parent' = parent
    /\ GetSiblingIndexCall(valid', parent', children', e) = k

C27_RootEntityCalls ==
    [][\A e \in valid :
        parent[e] = NULL =>
            /\ ( \/ \E i \in 0..MaxEntities : TrySetSiblingIndex(e, i)
                 \/ TrySetAsFirstSibling(e)
                 \/ TrySetAsLastSibling(e) )
               => /\ fault' = "none"
                  /\ result' = "false"
                  /\ UNCHANGED <<registryVars, transformVars, matrixVars>>
            /\ GetSiblingIndex(e)
               => /\ fault' = "none"
                  /\ result' = "0"
                  /\ UNCHANGED <<registryVars, transformVars, matrixVars>>
            /\ GetRoot(e)
               => /\ fault' = "none"
                  /\ result' = ToString(e)
                  /\ UNCHANGED <<registryVars, transformVars, matrixVars>>]_vars

\* C28: if an entity names a parent whose children list does not contain it,
\* TrySetSiblingIndex raises a fatal error and modifies nothing; it never
\* returns a normal true/false result in that state.
C28_CorruptionIsFatal ==
    [][\A e \in valid, i \in 0..MaxEntities :
        (/\ parent[e] \in valid
         /\ ~Contains(children[parent[e]], e)
         /\ AllHoldTransform
         /\ TrySetSiblingIndex(e, i))
        => /\ result' = "throws"
           /\ result' \notin {"true", "false"}
           /\ UNCHANGED <<registryVars, transformVars, matrixVars>>]_vars

\* the last call threw on an entity whose parent does not list it
C28_Witness ==
    /\ result = "throws"
    /\ fault = "none"
    /\ \E e \in valid :
        /\ parent[e] \in valid
        /\ ~Contains(children[parent[e]], e)

\* in the order of erasure of one pass, every entity comes after the entities
\* that were below it in hierarchy g, the one the pass began with
ErasedAfterDescendants(g, erased) ==
    \A i \in 1..Len(erased) :
        \A d \in StrictDescendants(g.children, g.valid, erased[i]) :
            \E j \in 1..(i - 1) : erased[j] = d

\* C29: within ProcessEntityCleanup an entity is erased only after all of its
\* descendants have been erased, and whenever the traversal reads an entity's
\* Transform or children list, that entity has not yet been erased.
C29_ChildrenBeforeParents ==
    [][ProcessEntityCleanup =>
        /\ fault' # "invalid read"
        /\ \A queue \in Snapshots(Marked), asserts \in BOOLEAN :
            ErasedAfterDescendants(Graph, ProcessEntityCleanupCall(asserts, Graph, queue).erased)]_vars

\* C30: a ProcessEntityCleanup call made when no entity carries DestroyTag
\* changes nothing: no entity is erased and no parent link, children list,
\* tag or component changes.
C30_EmptyPassIsNoOp ==
    [][(Marked = {} /\ ProcessEntityCleanup) =>
        /\ fault' = "none"
        /\ result' = "void"
        /\ valid' = valid
        /\ parent' = parent
        /\ children' = children
        /\ store' = store
        /\ UNCHANGED <<registryVars, transformVars, matrixVars>>]_vars

\* the last call was a pass over a scene with a parent and a child in which no
\* entity was marked, none having been erased so far
C30_Witness ==
    /\ result = "void"
    /\ fault = "none"
    /\ Marked = {}
    /\ Cardinality(valid) = numEntities
    /\ \E e \in valid : parent[e] \in valid /\ Contains(children[parent[e]], e)

\* C31: a system instance receives Init exactly once, at the successful
\* TryAddSystem that registers it and before any of its phase methods, and
\* Cleanup exactly once, at the TryRemoveSystem that removes it and after its
\* last phase call; a TryAddSystem that returns false calls Init on no system,
\* and SetEnabled never triggers Init or Cleanup.
C31_InitAndCleanupOnce ==
    [][/\ \A s \in SystemTypes :
            /\ (TryAddSystem(s) /\ result' = "true") =>
                 /\ dispatchLog' = <<<<"Init", s>>>>
                 /\ ~systems[s].present
                 /\ systems'[s].present
            /\ (TryAddSystem(s) /\ result' = "false") => dispatchLog' = <<>>
            /\ (TryRemoveSystem(s) /\ result' = "true") =>
                 /\ dispatchLog' = <<<<"Cleanup", s>>>>
                 /\ systems[s].present
                 /\ ~systems'[s].present
            /\ (TryRemoveSystem(s) /\ result' = "false") => dispatchLog' = <<>>
            /\ HasSystem(s) => dispatchLog' = <<>>
            /\ \A b \in BOOLEAN : SetEnabled(s, b) => dispatchLog' = <<>>
       /\ \A ph \in Phases : ProcessPhase(ph) =>
            \A i \in 1..Len(dispatchLog') :
                /\ dispatchLog'[i][1] = ph
                /\ systems[dispatchLog'[i][2]].present
                /\ systems'[dispatchLog'[i][2]].present]_vars

\* a system was removed, and received Cleanup, while another stays registered
C31_Witness ==
    /\ fault = "none"
    /\ result = "true"
    /\ \E s \in SystemTypes, t \in SystemTypes :
        /\ dispatchLog = <<<<"Cleanup", s>>>>
        /\ ~systems[s].present
        /\ systems[t].present
        /\ ~Contains(systemsIterator, s)

\* C32: in every reachable state the type-keyed system map and the order
\* vector hold exactly the same set of system types, each at most once, so the
\* consistency assertions in HasSystem and TryRemoveSystem never fail.
C32_SystemCollectionsInSync ==
    /\ \A s \in SystemTypes :
        /\ systems[s].present <=> Contains(systemsIterator, s)
        /\ Count(systemsIterator, s) <= 1
    /\ \A i \in 1..Len(systemsIterator) : systemsIterator[i] \in SystemTypes
    /\ fault # "assert"

\* after a removal two systems are left, in the map and in the order vector
C32_Witness ==
    /\ fault = "none"
    /\ result = "true"
    /\ Len(systemsIterator) = 2
    /\ \E s \in SystemTypes :
        /\ dispatchLog = <<<<"Cleanup", s>>>>
        /\ ~systems[s].present
        /\ \A t \in SystemTypes \ {s} : systems[t].present /\ Contains(systemsIterator, t)

\* the valid entities that have e among their ancestors
DescendantsByParent(e) == {x \in valid : e \in Ancestors(parent, x)}

\* an entity whose world matrix is clean has a clean model matrix and only
\* ancestors whose world matrix is clean, among the entities holding a Transform
CleanWorldImpliesCleanAbove ==
    \A e \in valid :
        (HasComponent(e, "Transform") /\ ~isWorldDirty[e]) =>
            /\ ~isModelDirty[e]
            /\ \A a \in Ancestors(parent, e) :
                 (a \in valid /\ HasComponent(a, "Transform")) => ~isWorldDirty[a]

\* C33: a local-field change (SetPos, SetScale, SetRot, SetEulerAnglesRad/Deg)
\* on an entity marks its model and world matrices dirty and, in the same
\* call, marks the world matrix dirty on every descendant; consequently, in
\* every reachable state an entity whose world matrix is clean has a clean
\* model matrix and only ancestors whose world matrix is clean.
C33_DirtyPropagation ==
    /\ [](fault = "none" => CleanWorldImpliesCleanAbove)
    /\ [][\A e \in valid, newLocal \in 0..MaxValue :
            (SetLocal(e, newLocal) /\ fault' = "none") =>
                /\ isModelDirty'[e]
                /\ isWorldDirty'[e]
                /\ \A d \in DescendantsByParent(e) : isWorldDirty'[d]]_vars

\* the dirty flags and the cached matrices of the entities of S are unchanged
FlagsAndCachesUnchanged(S) ==
    \A x \in S :
        /\ isModelDirty'[x] = isModelDirty[x]
        /\ isWorldDirty'[x] = isWorldDirty[x]
        /\ cachedModelMat'[x] = cachedModelMat[x]
        /\ cachedWorldMat'[x] = cachedWorldMat[x]

\* C34: SetPos/SetScale/SetRot on an entity e, and a successful reparent of e,
\* leave the dirty flags and the cached model and world matrices of every
\* entity that is neither e nor a descendant of e unchanged.
C34_UnrelatedUntouched ==
    [][\A e \in valid :
        LET others == Entities \ ({e} \cup DescendantsByParent(e)) IN
        /\ \A newLocal \in 0..MaxValue :
            SetLocal(e, newLocal) => FlagsAndCachesUnchanged(others)
        /\ \A newParent \in Entities :
            (TrySetParent(e, newParent) /\ result' = "true") => FlagsAndCachesUnchanged(others)]_vars

\* the last call changed a local field of a child whose parent keeps a clean
\* world matrix that is not the identity
C34_Witness ==
    /\ fault = "none"
    /\ result = "void"
    /\ \E e \in valid, u \in valid :
        /\ parent[e] = u
        /\ isModelDirty[e] /\ isWorldDirty[e]
        /\ ~isModelDirty[u] /\ ~isWorldDirty[u]
        /\ cachedWorldMat[u] # IDENTITY

\* the scene is as its OnEnter hook found it: entered by the last transition,
\* with the storage that Init had just allocated
AsOnEnterFoundIt ==
    /\ currentScene = TheScene
    /\ hookViews # <<>>
    /\ hookViews[Len(hookViews)].scene = TheScene
    /\ hookViews[Len(hookViews)].hook = "OnEnter"
    /\ hookViews[Len(hookViews)].registry = HasRegistry
    /\ hookViews[Len(hookViews)].valid = valid

\* in a transition every hook finds the storage of its scene allocated, and
\* OnExit finds every entity that was valid before the transition
HooksFindStorage ==
    [][(Internal_TryTransitionIfRequested /\ result' = "true") =>
        /\ Len(hookViews') = Len(hooks')
        /\ \A i \in 1..Len(hookViews') :
            /\ hookViews'[i].scene = hooks'[i][1]
            /\ hookViews'[i].hook = hooks'[i][2]
            /\ hookViews'[i].registry
            /\ (hookViews'[i].hook = "OnExit" /\ hookViews'[i].scene = TheScene)
                 => hookViews'[i].valid = valid]_vars

\* Scene::Cleanup on a scene that holds no storage calls no hook and changes
\* nothing
InactiveCleanupIsNoOp ==
    \A s \in Scenes : ~hasRegistry[s] => SceneCleanup(SceneState, s) = SceneState

\* C35: Init makes the scene's storage available before OnEnter runs, and
\* Cleanup runs OnExit before the storage is cleared, so entity operations
\* succeed inside OnEnter and inside OnExit and every entity created during
\* the activation is still valid while OnExit runs; Cleanup on a scene that is
\* not active calls no hook and changes nothing.
C35_HooksSeeStorage ==
    /\ HooksFindStorage
    /\ []InactiveCleanupIsNoOp
    /\ [][(AsOnEnterFoundIt /\ CreateEntity) => (fault' = "none" /\ result' = "entity")]_vars

\* the scenes that hold a registry
WithStorage == {s \in Scenes : hasRegistry[s]}

\* C36: under any sequence of transition requests and commits driven through
\* one SceneManager, at most one scene has allocated storage at any time, and
\* that scene is the SceneManager's current scene.
C36_OnlyCurrentHasStorage ==
    /\ [](Cardinality(WithStorage) <= 1 /\ WithStorage \subseteq {currentScene})
    /\ [][(Internal_TryTransitionIfRequested /\ result' = "true" /\ currentScene # NULL) =>
            \A s \in Scenes : ~SceneCleanup(SceneState, currentScene).hasRegistry[s]]_vars

\* a commit has left one scene for another: the scene left holds no storage,
\* the scene entered does
C36_Witness ==
    /\ currentScene # NULL
    /\ WithStorage = {currentScene}
    /\ \E i \in 1..Len(hooks) : hooks[i][2] = "OnExit" /\ hooks[i][1] # currentScene

\* every handle of the registry is a key of _entities that resolves to the
\* Entity object holding it
HandlesResolveToOwner ==
    \A e \in valid : TryGetEntity(slot[e], version[e]) = e

\* C37: every CreateEntity call registers a new handle-to-entity mapping (the
\* assertion 'A new entity should never fail to be inserted' never fails), and
\* every handle yielded by a registry view resolves to its own Entity - also
\* after entities have been destroyed and after the scene has been cleaned up
\* and entered again.
C37_HandleMapSound ==
    /\ [](fault = "none" => HandlesResolveToOwner)
    /\ [][(CreateEntity /\ HasRegistry) =>
            /\ fault' = "none"
            /\ HandleHolders(slot'[numEntities'], version'[numEntities']) = {}]_vars

\* C38: every valid entity holds a Transform component from its creation until
\* it is erased, whatever sequence of component add/remove operations is
\* applied to it, so GetTransform, the hierarchy operations and the traversals
\* never meet a valid entity without a Transform.
C38_TransformAlwaysHeld ==
    /\ [](fault = "none" => \A e \in valid : Has(e, "Transform"))
    /\ [][\A e \in Entities :
            (TryRemoveComponent(e, "Transform") /\ IsValid(e)) => result' = "false"]_vars

\* the entities of the subtree of e: e and everything below it by the
\* parent links
SubtreeSize(e) == Cardinality({e} \cup DescendantsByParent(e))

\* C39: in every state reachable through the public hierarchy operations, a
\* pre-order or post-order traversal started at any valid entity terminates,
\* after yielding exactly as many entities as its subtree contains.
C39_TraversalTerminates ==
    /\ [](iterator # NoIterator =>
            /\ iterator.it.fault = "none"
            /\ Len(yielded) <= SubtreeSize(iterator.root)
            /\ iterator.it.isEnd => Len(yielded) = SubtreeSize(iterator.root))
    /\ [][\A order \in {"PreOrder", "PostOrder"}, e \in Entities :
            TraverseEntity(order, e) => ~iterator'.it.isEnd]_vars
    /\ [](~iterator.it.isEnd => <>iterator.it.isEnd)

\* a loop over a subtree of three entities, one below the other, has ended
C39_Witness ==
    /\ fault = "none"
    /\ iterator # NoIterator
    /\ iterator.it.isEnd
    /\ Len(yielded) = 3
    /\ \E e \in valid : parent[e] # NULL /\ parent[parent[e]] # NULL

====
